---- MODULE Spec2Model ----
(***************************************************************************)
(* Verification model of parts of sdsl-lite: the bit-compressed CSA        *)
(* (csa_bitcompressed.hpp), its psi/lf/bwt/text views                      *)
(* (suffix_array_helper.hpp), the rank_support traits (rank_support.hpp)   *)
(* and the scanning select support (select_support_scan.hpp).              *)
(*                                                                         *)
(* C++ arrays are modelled as functions with domain 0..len-1.             *)
(* size_type arithmetic is unsigned and wraps; the model keeps the wrap    *)
(* with a scaled-down modulus SizeMod = 2^SizeBits.                        *)
(***************************************************************************)
EXTENDS Integers, Sequences, FiniteSets, TLC

VARIABLES text,        \* ghost: the original text the CSA was built from
          m_sa,        \* csa_bitcompressed::m_sa
          m_isa,       \* csa_bitcompressed::m_isa
          m_alphabet,  \* csa_bitcompressed::m_alphabet
          m_v,         \* the bit_vector supported by rank/select (m_v)
          call,        \* the last operation: its name, arguments, result
          heap,        \* the objects of the multi-object scenarios, by name
          stream,      \* the bytes last written by serialize or a cereal save
          cls          \* the class the objects of the scenario are instances of

\* the state outside the single CSA and the single bit vector
rest == <<heap, stream, cls>>

vars == <<text, m_sa, m_isa, m_alphabet, m_v, call, rest>>

-----------------------------------------------------------------------------
(* Bounds of the model *)

MaxN == 6          \* longest sentinel-terminated text (sentinel included)
MaxChar == 2       \* largest character of a sentinel-terminated text
MaxPermN == 5      \* longest text whose characters are all distinct
SizeBits == 8      \* width of size_type in the model (64 in the code)
MaxSmallN == 6     \* first_row_symbol: longest text whose C tables are all tried
MaxFrsN == 18      \* first_row_symbol: longest text with sigma around 16
MaxBitWords == 3   \* most 64-bit words of a bit vector
MaxSelect == 3     \* select(i) is tried for i up to this, and around the total

\* first_row_symbol searches C linearly below this sigma
LinearSigmaLimit == 16

SizeMod == 2 ^ SizeBits

\* the characters of interest for a text t: those up to one past its largest
\* character, which occurs nowhere in t
Chars(t) == 0 .. (CHOOSE m \in {t[p] + 1 : p \in DOMAIN t} :
                     \A p \in DOMAIN t : t[p] < m)

\* a loop that has not finished after its fuel has run out never finishes
Diverged == 0 - 1

\* unsigned size_type arithmetic
Add(a, b) == (a + b) % SizeMod
Sub(a, b) == (a - b + SizeMod) % SizeMod

VecLen(v) == Cardinality(DOMAIN v)
EmptyVec == <<>>

\* the alphabet of a default-constructed csa_bitcompressed
EmptyAlphabet == [char2comp |-> EmptyVec, comp2char |-> EmptyVec, C |-> EmptyVec, sigma |-> 0]

NoCall == [op |-> "none", i |-> 0, c |-> 0, ret |-> 0]

\* no objects: the scenarios of one CSA or one bit vector
NoHeap == <<>>
NoStream == [cls |-> "none", items |-> <<>>]
RestIdle == heap = NoHeap /\ stream = NoStream /\ cls = "none"

-----------------------------------------------------------------------------
(* Construction inputs: text, suffix array, alphabet *)

\* texts over 1..MaxChar ending in the sentinel 0
SentinelTexts ==
    UNION { { t \in [0 .. n - 1 -> 0 .. MaxChar] :
                /\ t[n - 1] = 0
                /\ \A p \in 0 .. n - 2 : t[p] # 0 } : n \in 1 .. MaxN }

\* texts of pairwise distinct characters 0..n-1: their suffix arrays are all
\* the permutations of [0,n)
DistinctTexts ==
    UNION { { t \in [0 .. n - 1 -> 0 .. n - 1] :
                \A p, q \in 0 .. n - 1 : t[p] = t[q] => p = q } : n \in 1 .. MaxPermN }

Texts == SentinelTexts \cup DistinctTexts

\* suffix p of t is lexicographically smaller than suffix q (p # q); a suffix
\* that ends is smaller than its extensions
RECURSIVE SufLess(_, _, _)
SufLess(t, p, q) ==
    IF p >= VecLen(t) THEN TRUE
    ELSE IF q >= VecLen(t) THEN FALSE
    ELSE IF t[p] # t[q] THEN t[p] < t[q]
    ELSE SufLess(t, p + 1, q + 1)

\* the inverse suffix array of t: the rank of each suffix
InverseSuffixArray(t) ==
    [p \in DOMAIN t |-> Cardinality({q \in DOMAIN t : q # p /\ SufLess(t, q, p)})]

Inverse(f) == [i \in DOMAIN f |-> CHOOSE j \in DOMAIN f : f[j] = i]

SuffixArray(t) == Inverse(InverseSuffixArray(t))

\* byte_alphabet built from text t
byte_alphabet(t) ==
    LET present == {t[p] : p \in DOMAIN t}
        sig == Cardinality(present)
        below(c) == Cardinality({d \in present : d < c})
        c2c == [c \in Chars(t) |-> IF c \in present THEN below(c) ELSE 0]
    IN  [char2comp |-> c2c,
         comp2char |-> [k \in 0 .. sig - 1 |-> CHOOSE c \in present : below(c) = k],
         C |-> [k \in 0 .. sig |-> Cardinality({p \in DOMAIN t : c2c[t[p]] < k})],
         sigma |-> sig]

-----------------------------------------------------------------------------
(* csa_bitcompressed and its views, as functions of the object csa *)

Csa == [m_sa |-> m_sa, m_isa |-> m_isa, m_alphabet |-> m_alphabet]

size(csa) == VecLen(csa.m_sa)

\* operator[]: the stored suffix array
sa_access_isa(csa, i) == csa.m_isa[i]
sa_access(csa, i) == csa.m_sa[i]

\* the member isa: a reference to m_isa
isa_access(csa, i) == csa.m_isa[i]

\* traverse_csa_saisa_trait<t_csa, true>::access
psi_access_off(csa, i) == csa.m_isa[(Add(sa_access(csa, i), 2)) % size(csa)]
psi_access(csa, i) == csa.m_isa[(Add(sa_access(csa, i), 1)) % size(csa)]

\* traverse_csa_saisa_trait<t_csa, false>::access
lf_access_forward(csa, i) == csa.m_isa[(Add(sa_access(csa, i), 1)) % size(csa)]
lf_access(csa, i) == csa.m_isa[(Sub(Add(sa_access(csa, i), size(csa)), 1)) % size(csa)]

\* first_row_symbol, sigma < 16: the linear scan; yields res - 1
RECURSIVE frs_linear(_, _, _)
frs_linear(csa, i, res) ==
    IF res < csa.m_alphabet.sigma /\ csa.m_alphabet.C[res] <= i
    THEN frs_linear(csa, i, res + 1)
    ELSE res - 1

\* first_row_symbol, sigma >= 16: the do-while binary search; yields res.
\* The loop state is (lower_c, upper_c), so (sigma+1)^2 iterations without
\* an exit mean that the loop repeats a state.
RECURSIVE frs_binary_stuck(_, _, _, _, _)
frs_binary_stuck(csa, i, lower_c, upper_c, fuel) ==
    LET CC == csa.m_alphabet.C
        res == (upper_c + lower_c) \div 2
        upper2 == IF i < CC[res] THEN res + 1 ELSE upper_c
        lower2 == IF i < CC[res] THEN lower_c
                  ELSE IF i >= CC[res + 1] THEN res + 1 ELSE lower_c
    IN  IF i < CC[res] \/ i >= CC[res + 1]
        THEN IF fuel = 0 THEN Diverged
             ELSE frs_binary_stuck(csa, i, lower2, upper2, fuel - 1)
        ELSE res

RECURSIVE frs_binary(_, _, _, _, _)
frs_binary(csa, i, lower_c, upper_c, fuel) ==
    LET CC == csa.m_alphabet.C
        res == (upper_c + lower_c) \div 2
        upper2 == IF i < CC[res] THEN res ELSE upper_c
        lower2 == IF i < CC[res] THEN lower_c
                  ELSE IF i >= CC[res + 1] THEN res + 1 ELSE lower_c
    IN  IF i < CC[res] \/ i >= CC[res + 1]
        THEN IF fuel = 0 THEN Diverged
             ELSE frs_binary(csa, i, lower2, upper2, fuel - 1)
        ELSE res

frs_fuel(csa) == (csa.m_alphabet.sigma + 1) * (csa.m_alphabet.sigma + 1)

\* the compact symbol k that first_row_symbol(i, csa) finds
first_row_comp(i, csa) ==
    IF csa.m_alphabet.sigma < LinearSigmaLimit
    THEN frs_linear(csa, i, 1)
    ELSE frs_binary(csa, i, 0, csa.m_alphabet.sigma, frs_fuel(csa))

first_row_symbol(i, csa) ==
    LET k == first_row_comp(i, csa)
    IN  IF k = Diverged THEN Diverged ELSE csa.m_alphabet.comp2char[k]

\* bwt_of_csa_psi::operator[]
bwt_access(csa, i) == first_row_symbol(lf_access(csa, i), csa)

\* text_of_csa::operator[]
text_access(csa, i) == first_row_symbol(csa.m_isa[i], csa)

\* rank_bwt: the binary search loop over psi in [lower_b, upper_b)
RECURSIVE rank_bwt_loop(_, _, _, _)
rank_bwt_loop(csa, i, lower_b, upper_b) ==
    IF lower_b + 1 < upper_b
    THEN LET mid == (lower_b + upper_b) \div 2
         IN  IF psi_access(csa, mid) >= i
             THEN rank_bwt_loop(csa, i, lower_b, mid)
             ELSE rank_bwt_loop(csa, i, mid, upper_b)
    ELSE lower_b

\* csa_bitcompressed::rank_bwt
rank_bwt_short(csa, i, c) ==
    LET cc == csa.m_alphabet.char2comp[c]
        CC == csa.m_alphabet.C
    IN  IF cc = 0 /\ c # 0 THEN 0
        ELSE LET lower_b == rank_bwt_loop(csa, i, CC[cc], CC[1 + cc])
             IN  IF lower_b > CC[cc]
                 THEN Sub(lower_b, CC[cc])
                 ELSE IF psi_access(csa, lower_b) < i THEN 1 ELSE 0
rank_bwt(csa, i, c) ==
    LET cc == csa.m_alphabet.char2comp[c]
        CC == csa.m_alphabet.C
    IN  IF cc = 0 /\ c # 0 THEN 0
        ELSE LET lower_b == rank_bwt_loop(csa, i, CC[cc], CC[1 + cc])
             IN  IF lower_b > CC[cc]
                 THEN Add(Sub(lower_b, CC[cc]), 1)
                 ELSE IF psi_access(csa, lower_b) < i THEN 1 ELSE 0

\* csa_bitcompressed::select_bwt
select_bwt_next(csa, i, c) ==
    LET cc == csa.m_alphabet.char2comp[c]
        CC == csa.m_alphabet.C
    IN  IF cc = 0 /\ c # 0 THEN size(csa)
        ELSE IF Add(CC[cc], i) < CC[1 + cc]
             THEN psi_access(csa, Add(CC[cc], i))
             ELSE size(csa)
select_bwt_unchecked(csa, i, c) ==
    LET cc == csa.m_alphabet.char2comp[c]
        CC == csa.m_alphabet.C
    IN  IF Sub(Add(CC[cc], i), 1) < CC[1 + cc]
        THEN psi_access(csa, Sub(Add(CC[cc], i), 1))
        ELSE size(csa)
select_bwt(csa, i, c) ==
    LET cc == csa.m_alphabet.char2comp[c]
        CC == csa.m_alphabet.C
    IN  IF cc = 0 /\ c # 0 THEN size(csa)
        ELSE IF Sub(Add(CC[cc], i), 1) < CC[1 + cc]
             THEN psi_access(csa, Sub(Add(CC[cc], i), 1))
             ELSE size(csa)

-----------------------------------------------------------------------------
(* Bit vectors and 64-bit words.  A word is the set of the positions of its
   1-bits, position 0 being the least significant bit. *)

WordBits == 64

AllBits == 0 .. WordBits - 1

\* bits::cnt
cnt(w) == Cardinality(w)
\* ~w
not(w) == AllBits \ w
\* w << 1
shl1(w) == {p + 1 : p \in w} \cap AllBits
\* w >> 63
top(w) == IF (WordBits - 1) \in w THEN 1 ELSE 0
\* a carry (0 or 1) as a word
bit0(carry) == IF carry = 1 THEN {0} ELSE {}
\* x ^ y
xor(x, y) == (x \ y) \cup (y \ x)
\* bits::lo_set[k], bits::lo_unset[k]
lo_set(k) == 0 .. k - 1
lo_unset(k) == k .. WordBits - 1
\* bits::map10, bits::map01
map10(x, c) == xor(x, shl1(x) \cup bit0(c)) \cap not(x)
map01(x, c) == xor(x, shl1(x) \cup bit0(c)) \cap x
\* bits::cnt10, bits::cnt01: the count and the new carry
cnt10(x, c) == [res |-> cnt(map10(x, c)), carry |-> top(x)]
cnt01(x, c) == [res |-> cnt(map01(x, c)), carry |-> top(x)]
\* bits::sel: the position of the i-th 1-bit of w, 1 <= i <= cnt(w)
sel(w, i) == CHOOSE p \in w : Cardinality({q \in w : q < p}) = i - 1

\* a bit_vector v is its length v.n in bits and its words v.data
\* the number of 64-bit words that store n bits
WordsFor(n) == (n + WordBits - 1) \div WordBits
NumWords(v) == WordsFor(v.n)

\* the bit_vector of length n with 1-bits at the positions in bits; the bits
\* from n on in the last word are 0
BitVector(n, bits) ==
    [n |-> n,
     data |-> [j \in 0 .. WordsFor(n) - 1 |->
                  {p \in AllBits : (WordBits * j + p) \in bits}]]

EmptyBitVector == BitVector(0, {})

\* m_v->data(): the words of v.  Reading past the last word yields oob,
\* whatever lies there.
Data(v, oob) ==
    [j \in 0 .. NumWords(v) + 1 |-> IF j < NumWords(v) THEN v.data[j] ELSE oob]

-----------------------------------------------------------------------------
(* rank_support_trait<bit_pattern, pattern_len>; idx >> 6 is idx \div 64 and
   idx & 0x3F is idx % 64 *)

\* rank_support_trait<0,1>
args_in_the_word_0_1(w, carry) == [res |-> cnt(not(w)), carry |-> carry]
word_rank_0_1(data, idx) ==
    cnt(not(data[idx \div WordBits]) \cap lo_set(idx % WordBits))
full_word_rank_0_1(data, idx) == cnt(not(data[idx \div WordBits]))
init_carry_0_1 == 0

\* rank_support_trait<1,1>
args_in_the_word_1_1(w, carry) == [res |-> cnt(w), carry |-> carry]
word_rank_1_1_incl(data, idx) ==
    cnt(data[idx \div WordBits] \cap lo_set((idx % WordBits) + 1))
word_rank_1_1(data, idx) ==
    cnt(data[idx \div WordBits] \cap lo_set(idx % WordBits))
full_word_rank_1_1(data, idx) == cnt(data[idx \div WordBits])
init_carry_1_1 == 0

\* rank_support_trait<10,2>
args_in_the_word_10_2(w, carry) == cnt10(w, carry)
word_rank_10_2(data, idx) ==
    LET d == idx \div WordBits
        carry == IF idx > WordBits - 1 THEN top(data[d - 1]) ELSE 0
    IN  cnt(map10(data[d], carry) \cap lo_set(idx % WordBits))
full_word_rank_10_2(data, idx) ==
    LET d == idx \div WordBits
        carry == IF idx > WordBits - 1 THEN top(data[d - 1]) ELSE 0
    IN  cnt(map10(data[d], carry))
init_carry_10_2 == 0

\* rank_support_trait<01,2>
args_in_the_word_01_2(w, carry) == cnt01(w, carry)
word_rank_01_2_carry0(data, idx) ==
    LET d == idx \div WordBits
        carry == IF idx > WordBits - 1 THEN top(data[d - 1]) ELSE 0
    IN  cnt(map01(data[d], carry) \cap lo_set(idx % WordBits))
word_rank_01_2(data, idx) ==
    LET d == idx \div WordBits
        carry == IF idx > WordBits - 1 THEN top(data[d - 1]) ELSE 1
    IN  cnt(map01(data[d], carry) \cap lo_set(idx % WordBits))
full_word_rank_01_2(data, idx) ==
    LET d == idx \div WordBits
        carry == IF idx > WordBits - 1 THEN top(data[d - 1]) ELSE 1
    IN  cnt(map01(data[d], carry))
init_carry_01_2 == 1

\* rank_support_trait<00,2>
args_in_the_word_00_2(w, carry) ==
    [res |-> cnt(not(w \cup (shl1(w) \cup bit0(carry)))), carry |-> top(w)]
word_rank_00_2(data, idx) ==
    LET d == idx \div WordBits
        carry == IF idx > WordBits - 1 THEN top(data[d - 1]) ELSE 1
    IN  cnt(not(data[d] \cup (shl1(data[d]) \cup bit0(carry))) \cap lo_set(idx % WordBits))
full_word_rank_00_2(data, idx) ==
    LET d == idx \div WordBits
        carry == IF idx > WordBits - 1 THEN top(data[d - 1]) ELSE 1
    IN  cnt(not(data[d] \cup (shl1(data[d]) \cup bit0(carry))))
init_carry_00_2 == 1

\* rank_support_trait<11,2>
args_in_the_word_11_2(w, carry) ==
    [res |-> cnt(w \cap (shl1(w) \cup bit0(carry))), carry |-> top(w)]
word_rank_11_2(data, idx) ==
    LET d == idx \div WordBits
        carry == IF idx > WordBits - 1 THEN top(data[d - 1]) ELSE 0
    IN  cnt((data[d] \cap (shl1(data[d]) \cup bit0(carry))) \cap lo_set(idx % WordBits))
full_word_rank_11_2(data, idx) ==
    LET d == idx \div WordBits
        carry == IF idx > WordBits - 1 THEN top(data[d - 1]) ELSE 0
    IN  cnt(data[d] \cap (shl1(data[d]) \cup bit0(carry)))
init_carry_11_2 == 0

\* the template parameters <bit_pattern, pattern_len> select the trait
OneBitPatterns == {"0", "1"}
TwoBitPatterns == {"10", "01", "00", "11"}
Patterns == OneBitPatterns \cup TwoBitPatterns

args_in_the_word(pat, w, carry) ==
    CASE pat = "0" -> args_in_the_word_0_1(w, carry)
      [] pat = "1" -> args_in_the_word_1_1(w, carry)
      [] pat = "10" -> args_in_the_word_10_2(w, carry)
      [] pat = "01" -> args_in_the_word_01_2(w, carry)
      [] pat = "00" -> args_in_the_word_00_2(w, carry)
      [] pat = "11" -> args_in_the_word_11_2(w, carry)

word_rank(pat, data, idx) ==
    CASE pat = "0" -> word_rank_0_1(data, idx)
      [] pat = "1" -> word_rank_1_1(data, idx)
      [] pat = "10" -> word_rank_10_2(data, idx)
      [] pat = "01" -> word_rank_01_2(data, idx)
      [] pat = "00" -> word_rank_00_2(data, idx)
      [] pat = "11" -> word_rank_11_2(data, idx)

full_word_rank(pat, data, idx) ==
    CASE pat = "0" -> full_word_rank_0_1(data, idx)
      [] pat = "1" -> full_word_rank_1_1(data, idx)
      [] pat = "10" -> full_word_rank_10_2(data, idx)
      [] pat = "01" -> full_word_rank_01_2(data, idx)
      [] pat = "00" -> full_word_rank_00_2(data, idx)
      [] pat = "11" -> full_word_rank_11_2(data, idx)

init_carry(pat) ==
    CASE pat = "0" -> init_carry_0_1
      [] pat = "1" -> init_carry_1_1
      [] pat = "10" -> init_carry_10_2
      [] pat = "01" -> init_carry_01_2
      [] pat = "00" -> init_carry_00_2
      [] pat = "11" -> init_carry_11_2

\* rank(idx) from the trait: the full words before word idx >> 6, then the
\* bits below idx of that word
RECURSIVE full_words_rank(_, _, _)
full_words_rank(pat, data, words) ==
    IF words = 0 THEN 0
    ELSE full_words_rank(pat, data, words - 1)
         + full_word_rank(pat, data, WordBits * (words - 1))

scan_rank(pat, data, idx) ==
    full_words_rank(pat, data, idx \div WordBits) + word_rank(pat, data, idx)

\* args_in_the_word applied to the words 0..k in turn, the carry of each call
\* handed to the next; yields the count and the carry of word k
RECURSIVE args_threaded(_, _, _)
args_threaded(pat, data, k) ==
    IF k = 0 THEN args_in_the_word(pat, data[0], init_carry(pat))
    ELSE args_in_the_word(pat, data[k], args_threaded(pat, data, k - 1).carry)

-----------------------------------------------------------------------------
(* select_support_trait<bit_pattern, pattern_len> for the patterns of
   select_support_scan *)

SelectPatterns == {"0", "1", "10", "01"}

\* the word whose 1-bits are the occurrences of the pattern in w
sel_map(pat, w, carry) ==
    CASE pat = "0" -> not(w)
      [] pat = "1" -> w
      [] pat = "10" -> map10(w, carry)
      [] pat = "01" -> map01(w, carry)

sel_args_in_the_first_word(pat, w, offset, carry) ==
    cnt(sel_map(pat, w, carry) \cap lo_unset(offset))
sel_ith_arg_pos_in_the_first_word(pat, w, i, offset, carry) ==
    sel(sel_map(pat, w, carry) \cap lo_unset(offset), i)
sel_args_in_the_word(pat, w, carry) ==
    [res |-> cnt(sel_map(pat, w, carry)),
     carry |-> IF pat \in {"10", "01"} THEN top(w) ELSE carry]
sel_ith_arg_pos_in_the_word(pat, w, i, carry) == sel(sel_map(pat, w, carry), i)
sel_init_carry(pat, data, word_pos) ==
    CASE pat \in {"0", "1"} -> 0
      [] pat = "10" -> IF word_pos # 0 THEN top(data[word_pos - 1]) ELSE 0
      [] pat = "01" -> IF word_pos # 0 THEN top(data[word_pos - 1]) ELSE 1
sel_get_carry(pat, w) == IF pat \in {"10", "01"} THEN top(w) ELSE 0

-----------------------------------------------------------------------------
(* select_support_scan<t_b, t_pat_len>::select; data is m_v->data() and
   words is capacity() >> 6 *)

Returned(pos) == [kind |-> "ret", pos |-> pos]
AssertionFailed == [kind |-> "assert", pos |-> 0]

\* the while loop: data points at word word_pos
RECURSIVE select_loop(_, _, _, _, _, _, _, _)
select_loop(pat, data, words, i, word_pos, sum_args, args, carries) ==
    IF sum_args + args < i
    THEN IF ~(word_pos + 1 < words) THEN AssertionFailed
         ELSE LET r == sel_args_in_the_word(pat, data[word_pos + 1], carries.carry)
              IN  select_loop(pat, data, words, i, word_pos + 1, sum_args + args,
                              r.res, [carry |-> r.carry, old_carry |-> carries.carry])
    ELSE Returned(WordBits * word_pos
                  + sel_ith_arg_pos_in_the_word(pat, data[word_pos], i - sum_args,
                                                carries.old_carry))

select_carry0(pat, data, words, i) ==
    LET word_pos == 0
        word_off == 0
        carry == sel_init_carry(pat, data, word_pos)
        args == sel_args_in_the_first_word(pat, data[0], word_off, carry)
    IN  IF args >= i
        THEN Returned(WordBits * word_pos
                      + sel_ith_arg_pos_in_the_first_word(pat, data[0], i, word_off, carry))
        ELSE LET carry1 == 0
                 r == sel_args_in_the_word(pat, data[1], carry1)
             IN  select_loop(pat, data, words, i, word_pos + 1, args, r.res,
                             [carry |-> r.carry, old_carry |-> carry1])

select(pat, data, words, i) ==
    LET word_pos == 0
        word_off == 0
        carry == sel_init_carry(pat, data, word_pos)
        args == sel_args_in_the_first_word(pat, data[0], word_off, carry)
    IN  IF args >= i
        THEN Returned(WordBits * word_pos
                      + sel_ith_arg_pos_in_the_first_word(pat, data[0], i, word_off, carry))
        ELSE LET carry1 == sel_get_carry(pat, data[0])
                 r == sel_args_in_the_word(pat, data[1], carry1)
             IN  select_loop(pat, data, words, i, word_pos + 1, args, r.res,
                             [carry |-> r.carry, old_carry |-> carry1])

-----------------------------------------------------------------------------
(* Operations *)

\* rank_support_scan::rank built from the trait
scan_rank_call(pat, i, oob) ==
    /\ call = NoCall
    /\ i <= m_v.n
    /\ call' = [op |-> "scan_rank", i |-> i, c |-> 0, pat |-> pat,
                ret |-> scan_rank(pat, Data(m_v, oob), i)]
    /\ UNCHANGED <<text, m_sa, m_isa, m_alphabet, m_v, rest>>

\* args_in_the_word on the words 0..k, as the construction of a rank support
\* calls it
args_call(pat, k) ==
    /\ call = NoCall
    /\ k < NumWords(m_v)
    /\ call' = [op |-> "args", i |-> k, c |-> 0, pat |-> pat,
                ret |-> args_threaded(pat, Data(m_v, {}), k)]
    /\ UNCHANGED <<text, m_sa, m_isa, m_alphabet, m_v, rest>>

\* select_support_scan::select
scan_select_call(pat, i, oob) ==
    /\ call = NoCall
    /\ 1 <= i
    /\ call' = [op |-> "scan_select", i |-> i, c |-> 0, pat |-> pat,
                ret |-> select(pat, Data(m_v, oob), NumWords(m_v), i)]
    /\ UNCHANGED <<text, m_sa, m_isa, m_alphabet, m_v, rest>>

\* bwt_of_csa_psi::rank
rank_call(i, c) ==
    /\ call = NoCall
    /\ i <= size(Csa)
    /\ call' = [op |-> "rank", i |-> i, c |-> c, ret |-> rank_bwt(Csa, i, c)]
    /\ UNCHANGED <<text, m_sa, m_isa, m_alphabet, m_v, rest>>

\* bwt_of_csa_psi::select
select_call(i, c) ==
    /\ call = NoCall
    /\ i <= size(Csa) + 1
    /\ call' = [op |-> "select", i |-> i, c |-> c, ret |-> select_bwt(Csa, i, c)]
    /\ UNCHANGED <<text, m_sa, m_isa, m_alphabet, m_v, rest>>

bwt_call(i) ==
    /\ call = NoCall
    /\ i < size(Csa)
    /\ call' = [op |-> "bwt", i |-> i, c |-> 0, ret |-> bwt_access(Csa, i)]
    /\ UNCHANGED <<text, m_sa, m_isa, m_alphabet, m_v, rest>>

text_call(i) ==
    /\ call = NoCall
    /\ i < size(Csa)
    /\ call' = [op |-> "text", i |-> i, c |-> 0, ret |-> text_access(Csa, i)]
    /\ UNCHANGED <<text, m_sa, m_isa, m_alphabet, m_v, rest>>

\* first_row_of_csa::operator[]
first_row_call(i) ==
    /\ call = NoCall
    /\ i < size(Csa)
    /\ call' = [op |-> "first_row", i |-> i, c |-> 0, ret |-> first_row_symbol(i, Csa)]
    /\ UNCHANGED <<text, m_sa, m_isa, m_alphabet, m_v, rest>>

psi_call(i) ==
    /\ call = NoCall
    /\ i < size(Csa)
    /\ call' = [op |-> "psi", i |-> i, c |-> 0, ret |-> psi_access(Csa, i)]
    /\ UNCHANGED <<text, m_sa, m_isa, m_alphabet, m_v, rest>>

lf_call(i) ==
    /\ call = NoCall
    /\ i < size(Csa)
    /\ call' = [op |-> "lf", i |-> i, c |-> 0, ret |-> lf_access(Csa, i)]
    /\ UNCHANGED <<text, m_sa, m_isa, m_alphabet, m_v, rest>>

\* csa_bitcompressed::operator[]
sa_call(i) ==
    /\ call = NoCall
    /\ i < size(Csa)
    /\ call' = [op |-> "sa", i |-> i, c |-> 0, ret |-> sa_access(Csa, i)]
    /\ UNCHANGED <<text, m_sa, m_isa, m_alphabet, m_v, rest>>

\* csa_bitcompressed::isa[i]
isa_call(i) ==
    /\ call = NoCall
    /\ i < size(Csa)
    /\ call' = [op |-> "isa", i |-> i, c |-> 0, ret |-> isa_access(Csa, i)]
    /\ UNCHANGED <<text, m_sa, m_isa, m_alphabet, m_v, rest>>

\* the call returns to its caller: the library is synchronous, the next
\* query starts after the last one has returned
return_call ==
    /\ call # NoCall
    /\ call' = NoCall
    /\ UNCHANGED <<text, m_sa, m_isa, m_alphabet, m_v, rest>>

-----------------------------------------------------------------------------
(* Specification of the CSA: constructed from a text, then queried *)

InitCsa ==
    /\ text \in Texts
    /\ m_sa = SuffixArray(text)
    /\ m_isa = InverseSuffixArray(text)
    /\ m_alphabet = byte_alphabet(text)
    /\ m_v = EmptyBitVector
    /\ call = NoCall
    /\ RestIdle

NextCsa ==
    \/ \E i \in 0 .. size(Csa) - 1 : psi_call(i)
    \/ \E i \in 0 .. size(Csa) - 1 : lf_call(i)
    \/ \E i \in 0 .. size(Csa) - 1 : bwt_call(i)
    \/ \E i \in 0 .. size(Csa) - 1 : text_call(i)
    \/ \E i \in 0 .. size(Csa), c \in Chars(text) : rank_call(i, c)
    \/ \E i \in 0 .. size(Csa) + 1, c \in Chars(text) : select_call(i, c)
    \/ return_call

SpecCsa == InitCsa /\ [][NextCsa]_vars

-----------------------------------------------------------------------------
(* Specification of first_row_symbol: CSAs of texts with chosen cumulative
   tables C, queried through the first-row view *)

\* the text of length n whose character changes at the positions in S: its
\* table C is 0, the elements of S in increasing order, n
TextOfCuts(n, S) == [p \in 0 .. n - 1 |-> 2 * Cardinality({x \in S : x <= p})]

FrsTexts ==
    UNION { { TextOfCuts(n, S) : S \in SUBSET (1 .. n - 1) } : n \in 1 .. MaxSmallN }
    \cup
    UNION { { TextOfCuts(n, (1 .. n - 1) \ {a, b}) : a, b \in 0 .. n - 1 } :
            n \in (LinearSigmaLimit - 1) .. MaxFrsN }

InitFrs ==
    /\ text \in FrsTexts
    /\ m_sa = SuffixArray(text)
    /\ m_isa = InverseSuffixArray(text)
    /\ m_alphabet = byte_alphabet(text)
    /\ m_v = EmptyBitVector
    /\ call = NoCall
    /\ RestIdle

NextFrs ==
    \/ \E i \in 0 .. size(Csa) - 1 : first_row_call(i)
    \/ return_call

SpecFrs == InitFrs /\ [][NextFrs]_vars

-----------------------------------------------------------------------------
(* Specification of rank and select on a bit vector *)

\* lengths around the word boundaries
BitLens ==
    {0} \cup {WordBits * w + d : w \in 0 .. MaxBitWords - 1,
                                 d \in {1, WordBits}}

\* the bits around the word boundaries are free, the bits between them are
\* all 0 or all 1
HotBits(n) == {p \in 0 .. n - 1 : (p % WordBits) \in {0, WordBits - 1}}

BitVectors ==
    UNION { { BitVector(n, H \cup F) :
                H \in SUBSET HotBits(n), F \in {{}, (0 .. n - 1) \ HotBits(n)} } :
            n \in BitLens }

\* what a read past the last word may find
OobWords == {{}, AllBits}

RankIdx(n) == {i \in 0 .. n : (i % WordBits) \in {0, 1, WordBits - 1}} \cup {n}

\* the arguments select is tried with: the first ones, those around the
\* number of occurrences in v, and one more than the stored words hold
SelectIdx(pat, v) ==
    LET total == scan_rank(pat, Data(v, {}), v.n)
        stored == full_words_rank(pat, Data(v, {}), NumWords(v))
    IN  {i \in 1 .. stored + 1 :
            \/ i <= MaxSelect
            \/ (i + 1 >= total /\ i <= total + 1)
            \/ i = stored + 1}

InitBits ==
    /\ text = EmptyVec
    /\ m_sa = EmptyVec
    /\ m_isa = EmptyVec
    /\ m_alphabet = EmptyAlphabet
    /\ m_v \in BitVectors
    /\ call = NoCall
    /\ RestIdle

NextBits ==
    \/ \E pat \in Patterns, i \in RankIdx(m_v.n), oob \in OobWords :
          scan_rank_call(pat, i, oob)
    \/ \E pat \in Patterns, k \in 0 .. NumWords(m_v) - 1 : args_call(pat, k)
    \/ \E pat \in SelectPatterns, oob \in OobWords :
          \E i \in SelectIdx(pat, m_v) : scan_select_call(pat, i, oob)
    \/ return_call

SpecBits == InitBits /\ [][NextBits]_vars

-----------------------------------------------------------------------------
(* C1: psi and lf of a csa_bitcompressed whose SA is a permutation and whose
   ISA is its inverse are mutual inverses: lf[psi[i]] = i and psi[lf[i]] = i
   for every i in [0,n). *)
C1_PsiLfInverse ==
    /\ call.op = "psi" => lf_access(Csa, call.ret) = call.i
    /\ call.op = "lf" => psi_access(Csa, call.ret) = call.i

C1_Witness ==
    /\ call.op = "psi"
    /\ size(Csa) = MaxPermN
    /\ m_sa[0] # size(Csa) - 1
    /\ m_sa[call.i] = size(Csa) - 1
    /\ call.ret = m_isa[0]

-----------------------------------------------------------------------------
(* C2: bwt[i] equals text[(sa[i]-1+n) mod n], and both equal the character of
   the original text that cyclically precedes suffix sa[i]. *)
C2_BwtIsPrecedingChar ==
    call.op = "bwt" =>
        LET n == size(Csa)
            j == Add(Sub(sa_access(Csa, call.i), 1), n) % n
        IN  /\ call.ret = text_access(Csa, j)
            /\ call.ret = text[(m_sa[call.i] + n - 1) % n]

C2_Witness ==
    /\ call.op = "bwt"
    /\ size(Csa) = MaxN
    /\ m_alphabet.sigma = 3
    /\ m_sa[call.i] = 0
    /\ call.ret = 0

\* the BWT of the original text, and brute-force counting in it
TextBwt(p) == text[(m_sa[p] + size(Csa) - 1) % size(Csa)]
Occ(i, c) == Cardinality({p \in 0 .. i - 1 : bwt_access(Csa, p) = c})

(* C4: bwt.rank(i,c) is the number of positions p < i with bwt[p] = c; it is
   0 when c does not occur in the text, 0 for i = 0, and the size of the
   bucket of c for i = n. *)
C4_RankCounts ==
    call.op = "rank" =>
        LET n == size(Csa)
            cc == m_alphabet.char2comp[call.c]
            absent == \A p \in DOMAIN text : text[p] # call.c
        IN  /\ call.ret = Occ(call.i, call.c)
            /\ call.ret = Cardinality({p \in 0 .. call.i - 1 : TextBwt(p) = call.c})
            /\ absent => call.ret = 0
            /\ call.i = 0 => call.ret = 0
            /\ (call.i = n /\ ~absent) => call.ret = m_alphabet.C[cc + 1] - m_alphabet.C[cc]

C4_Witness ==
    /\ call.op = "rank"
    /\ size(Csa) = MaxN
    /\ call.i = MaxN - 1
    /\ call.ret = 2
    /\ m_alphabet.C[m_alphabet.char2comp[call.c] + 1]
         - m_alphabet.C[m_alphabet.char2comp[call.c]] = 3

(* C5: bwt.select(i,c) is the position of the i-th c in the BWT,
   psi[C[cc]+i-1], when 1 <= i <= number of occurrences of c, and size()
   when c occurs fewer than i times or not at all. *)
C5_SelectPosition ==
    call.op = "select" =>
        LET n == size(Csa)
            cc == m_alphabet.char2comp[call.c]
            total == Occ(n, call.c)
        IN  /\ (1 <= call.i /\ call.i <= total) =>
                  /\ call.ret = psi_access(Csa, m_alphabet.C[cc] + call.i - 1)
                  /\ call.ret < n
                  /\ bwt_access(Csa, call.ret) = call.c
                  /\ Occ(call.ret, call.c) = call.i - 1
            /\ (total < call.i) => call.ret = n

C5_Witness ==
    /\ call.op = "select"
    /\ call.i = 2
    /\ call.c # 0
    /\ Occ(size(Csa), call.c) = 3
    /\ call.ret < size(Csa)

C5_WitnessAbsent ==
    /\ call.op = "select"
    /\ call.i = 1
    /\ call.ret = size(Csa)

(* C3 as stated: for every c and every i in [0, rank(size(),c)], i = 0
   included, rank(select(i,c)+1, c) = i and select(i,c) < size(). *)
C3_Original ==
    (call.op = "select" /\ call.i <= rank_bwt(Csa, size(Csa), call.c)) =>
        /\ rank_bwt(Csa, Add(call.ret, 1), call.c) = call.i
        /\ call.ret < size(Csa)

(* C3 amended: for every c and every i in [1, rank(size(),c)],
   rank(select(i,c)+1, c) = i and select(i,c) < size(). *)
C3_RankSelect ==
    (call.op = "select" /\ 1 <= call.i /\ call.i <= rank_bwt(Csa, size(Csa), call.c)) =>
        /\ rank_bwt(Csa, Add(call.ret, 1), call.c) = call.i
        /\ call.ret < size(Csa)

C3_Witness ==
    /\ call.op = "select"
    /\ call.i = 3
    /\ rank_bwt(Csa, size(Csa), call.c) = 3
    /\ rank_bwt(Csa, Add(call.ret, 1), call.c) = 3

(* C6: for every strictly increasing table C with C[0] = 0 and C[sigma] = n
   and every i < n, first_row_symbol terminates and returns comp2char[k] for
   the unique k with C[k] <= i < C[k+1]; the linear scan and the binary
   search find the same k. *)
C6_FirstRowSymbol ==
    call.op = "first_row" =>
        LET sig == m_alphabet.sigma
            CC == m_alphabet.C
            ks == {k \in 0 .. sig - 1 : CC[k] <= call.i /\ call.i < CC[k + 1]}
        IN  /\ call.ret # Diverged
            /\ Cardinality(ks) = 1
            /\ \A k \in ks :
                  /\ call.ret = m_alphabet.comp2char[k]
                  /\ frs_linear(Csa, call.i, 1) = k
                  /\ frs_binary(Csa, call.i, 0, sig, frs_fuel(Csa)) = k

C6_Witness ==
    /\ call.op = "first_row"
    /\ m_alphabet.sigma = LinearSigmaLimit
    /\ size(Csa) = LinearSigmaLimit + 2
    /\ call.i = LinearSigmaLimit
    /\ call.ret = 2 * (LinearSigmaLimit - 2)

-----------------------------------------------------------------------------
(* Brute-force counting in the bit sequence of m_v *)

Bit(v, p) ==
    IF p < v.n /\ (p % WordBits) \in v.data[p \div WordBits] THEN 1 ELSE 0

\* position p is counted for pat: for a 2-bit pattern the pair (B[p-1], B[p])
\* is the pattern and p >= 1
PatternAt(pat, v, p) ==
    CASE pat = "0" -> Bit(v, p) = 0
      [] pat = "1" -> Bit(v, p) = 1
      [] pat = "10" -> p >= 1 /\ Bit(v, p - 1) = 1 /\ Bit(v, p) = 0
      [] pat = "01" -> p >= 1 /\ Bit(v, p - 1) = 0 /\ Bit(v, p) = 1
      [] pat = "00" -> p >= 1 /\ Bit(v, p - 1) = 0 /\ Bit(v, p) = 0
      [] pat = "11" -> p >= 1 /\ Bit(v, p - 1) = 1 /\ Bit(v, p) = 1

BruteRank(pat, v, i) == Cardinality({p \in 0 .. i - 1 : PatternAt(pat, v, p)})

(* C7: for the patterns 1 and 0, the sum of full_word_rank over the words
   before word i/64 plus word_rank(data, i) is the number of 1-bits (0-bits)
   in B[0,i), for every i in [0,n]; it is 0 for i = 0 and word_rank is 0
   whenever i is a multiple of 64. *)
C7_OneBitRank ==
    (call.op = "scan_rank" /\ call.pat \in OneBitPatterns) =>
        /\ call.ret = BruteRank(call.pat, m_v, call.i)
        /\ call.i = 0 => call.ret = 0
        /\ (call.i % WordBits = 0) =>
              \A oob \in OobWords : word_rank(call.pat, Data(m_v, oob), call.i) = 0

C7_Witness ==
    /\ call.op = "scan_rank"
    /\ call.pat = "0"
    /\ m_v.n = 2 * WordBits
    /\ call.i = m_v.n
    /\ call.ret = 2

(* C8: for the patterns 10, 01, 00 and 11 the per-word counts count position
   p exactly when p >= 1 and (B[p-1], B[p]) is the pattern: the carry into a
   word is the top bit of the word before it, the carry into the first word
   is init_carry(), and args_in_the_word with the threaded carry equals
   full_word_rank of the same word. *)
C8_TwoBitRank ==
    /\ (call.op = "scan_rank" /\ call.pat \in TwoBitPatterns) =>
          call.ret = BruteRank(call.pat, m_v, call.i)
    /\ (call.op = "args" /\ call.pat \in TwoBitPatterns) =>
          LET data == Data(m_v, {})
              k == call.i
          IN  /\ call.ret.res = full_word_rank(call.pat, data, WordBits * k)
              /\ call.ret.res = Cardinality({p \in WordBits * k .. WordBits * k + WordBits - 1 :
                                               PatternAt(call.pat, m_v, p)})
              /\ call.ret.carry = Bit(m_v, WordBits * k + WordBits - 1)

C8_Witness ==
    /\ call.op = "args"
    /\ call.pat = "01"
    /\ call.i = 1
    /\ m_v = BitVector(2 * WordBits, {0, WordBits})
    /\ call.ret.res = 1

C8_WitnessRank ==
    /\ call.op = "scan_rank"
    /\ call.pat = "10"
    /\ m_v = BitVector(WordBits + 1, {WordBits - 1})
    /\ call.i = WordBits + 1
    /\ call.ret = 1

(* C9: for 1 <= i <= number of occurrences of the pattern, select(i) returns
   the position p of the i-th occurrence: rank(p+1) - rank(p) = 1 and
   rank(p) = i - 1. *)
C9_SelectIsIthOccurrence ==
    (/\ call.op = "scan_select"
     /\ call.i <= BruteRank(call.pat, m_v, m_v.n)) =>
        /\ call.ret.kind = "ret"
        /\ call.ret.pos < m_v.n
        /\ PatternAt(call.pat, m_v, call.ret.pos)
        /\ BruteRank(call.pat, m_v, call.ret.pos) = call.i - 1
        /\ \A oob \in OobWords :
              /\ scan_rank(call.pat, Data(m_v, oob), call.ret.pos) = call.i - 1
              /\ scan_rank(call.pat, Data(m_v, oob), call.ret.pos + 1)
                   - scan_rank(call.pat, Data(m_v, oob), call.ret.pos) = 1

C9_Witness ==
    /\ call.op = "scan_select"
    /\ call.pat = "10"
    /\ m_v = BitVector(2 * WordBits, {0, WordBits - 1, 2 * WordBits - 1})
    /\ call.i = 2
    /\ call.ret = Returned(WordBits)

(* C10: select(i) with i greater than the number of occurrences of the
   pattern in the n-bit vector is a detected precondition violation (an
   assertion failure): it never returns a position. *)
C10_SelectBeyondTotalAsserts ==
    (/\ call.op = "scan_select"
     /\ call.i > BruteRank(call.pat, m_v, m_v.n)) =>
        call.ret.kind = "assert"

-----------------------------------------------------------------------------
(* The CSA of the text mississippi$ *)

\* the bytes of "mississippi$"
Byte_dollar == 36
Byte_i == 105
Byte_m == 109
Byte_p == 112
Byte_s == 115

MissText ==
    [p \in 0 .. 11 |->
        <<Byte_m, Byte_i, Byte_s, Byte_s, Byte_i, Byte_s, Byte_s, Byte_i,
          Byte_p, Byte_p, Byte_i, Byte_dollar>>[p + 1]]

MissSA == [p \in 0 .. 11 |-> <<11, 10, 7, 4, 1, 0, 9, 8, 6, 3, 5, 2>>[p + 1]]

MissC == [k \in 0 .. 5 |-> <<0, 1, 5, 6, 8, 12>>[k + 1]]

\* the characters the mississippi CSA is asked about
MissChars == {Byte_dollar, Byte_i, Byte_m, Byte_p, Byte_s, 0, Byte_dollar + 1}

InitMiss ==
    /\ text = MissText
    /\ m_sa = MissSA
    /\ m_isa = Inverse(MissSA)
    /\ m_alphabet = byte_alphabet(MissText)
    /\ m_v = EmptyBitVector
    /\ call = NoCall
    /\ RestIdle

NextMiss ==
    \/ \E i \in 0 .. size(Csa) - 1 : sa_call(i)
    \/ \E i \in 0 .. size(Csa) - 1 : isa_call(i)
    \/ \E i \in 0 .. size(Csa) - 1 : bwt_call(i)
    \/ \E i \in 0 .. size(Csa) - 1 : psi_call(i)
    \/ \E i \in 0 .. size(Csa) - 1 : lf_call(i)
    \/ \E i \in 0 .. size(Csa), c \in MissChars : rank_call(i, c)
    \/ return_call

SpecMiss == InitMiss /\ [][NextMiss]_vars

(* C11: for mississippi$ with SA = [11,10,7,4,1,0,9,8,6,3,5,2], ISA its
   inverse and C = [0,1,5,6,8,12]: csa[0] = 11, csa.isa[11] = 0 and
   bwt[0] = 'i', the character T[10] that cyclically precedes sa[0]. *)
C11_Mississippi ==
    /\ m_sa = SuffixArray(text)
    /\ m_alphabet.C = MissC
    /\ (call.op = "sa" /\ call.i = 0) => call.ret = 11
    /\ (call.op = "isa" /\ call.i = 11) => call.ret = 0
    /\ (call.op = "bwt" /\ call.i = 0) =>
          /\ call.ret = Byte_i
          /\ call.ret = text[10]
          /\ call.ret = text[(m_sa[0] + VecLen(text) - 1) % VecLen(text)]

C11_Witness ==
    /\ text = MissText
    /\ call.op = "bwt"
    /\ call.i = 0
    /\ call.ret = Byte_i

-----------------------------------------------------------------------------
(* Several csa_bitcompressed objects: construction, copy, move, assignment,
   std::swap, destruction.  An object is its three members and the binding
   of its views: psi, lf, bwt, L, F, text hold a reference m_csa to a CSA and
   isa, C, char2comp, comp2char, sigma are references to members of a CSA. *)

MaxObjN == 3       \* longest text of a CSA object of the multi-object scenarios

\* the named objects, and the temporary of copy assignment and std::swap
Objects == {"a", "b"}
Tmp == "tmp"

\* storage that holds no object
NoObject == [live |-> FALSE, m_sa |-> EmptyVec, m_isa |-> EmptyVec,
             m_alphabet |-> EmptyAlphabet, views |-> "none"]

ObjTexts == {t \in SentinelTexts : VecLen(t) <= MaxObjN}

\* the members of object o of heap h, as the views read them
Members(h, o) == [m_sa |-> h[o].m_sa, m_isa |-> h[o].m_isa, m_alphabet |-> h[o].m_alphabet]

\* csa_bitcompressed(): empty members; the default member initializers bind
\* the views to *this
default_ctor(h, o) ==
    [h EXCEPT ![o] = [live |-> TRUE, m_sa |-> EmptyVec, m_isa |-> EmptyVec,
                      m_alphabet |-> EmptyAlphabet, views |-> o]]

\* csa_bitcompressed(cache_config &)
data_ctor(h, o, t) ==
    [h EXCEPT ![o] = [live |-> TRUE, m_sa |-> SuffixArray(t),
                      m_isa |-> InverseSuffixArray(t),
                      m_alphabet |-> byte_alphabet(t), views |-> o]]

\* csa_bitcompressed(csa_bitcompressed const &): the three members are
\* copied, the views are initialized by their default member initializers
copy_ctor_views(h, o, src) ==
    [h EXCEPT ![o] = [live |-> TRUE, m_sa |-> h[src].m_sa, m_isa |-> h[src].m_isa,
                      m_alphabet |-> h[src].m_alphabet, views |-> h[src].views]]
copy_ctor(h, o, src) ==
    [h EXCEPT ![o] = [live |-> TRUE, m_sa |-> h[src].m_sa, m_isa |-> h[src].m_isa,
                      m_alphabet |-> h[src].m_alphabet, views |-> o]]

\* operator=(csa_bitcompressed &&): the members are moved one by one, a
\* moved-from vector is empty
move_assign(h, o, src) ==
    IF o # src
    THEN [h EXCEPT ![o].m_sa = h[src].m_sa,
                   ![o].m_isa = h[src].m_isa,
                   ![o].m_alphabet = h[src].m_alphabet,
                   ![src].m_sa = EmptyVec,
                   ![src].m_isa = EmptyVec,
                   ![src].m_alphabet = EmptyAlphabet]
    ELSE h

\* csa_bitcompressed(csa_bitcompressed &&): *this = std::move(csa)
move_ctor(h, o, src) == move_assign(default_ctor(h, o), o, src)

\* ~csa_bitcompressed
destroy(h, o) == [h EXCEPT ![o] = NoObject]

\* operator=(csa_bitcompressed const &)
copy_assign(h, o, src) ==
    IF o # src
    THEN destroy(move_assign(copy_ctor(h, Tmp, src), o, Tmp), Tmp)
    ELSE h

\* std::swap(x, y): T tmp(std::move(x)); x = std::move(y); y = std::move(tmp)
std_swap(h, x, y) ==
    destroy(move_assign(move_assign(move_ctor(h, Tmp, x), x, y), y, Tmp), Tmp)

\* the CSA a view of object o reads: the object its reference is bound to;
\* the storage of a destroyed object may hold anything
ViewTargets(h, o) ==
    IF h[h[o].views].live
    THEN {Members(h, h[o].views)}
    ELSE {[m_sa |-> EmptyVec, m_isa |-> EmptyVec, m_alphabet |-> EmptyAlphabet]}
         \cup {[m_sa |-> SuffixArray(t), m_isa |-> InverseSuffixArray(t),
                m_alphabet |-> byte_alphabet(t)] : t \in ObjTexts}

ViewNames == {"psi", "lf", "bwt", "text", "isa"}

view_access(name, csa, i) ==
    CASE name = "psi" -> psi_access(csa, i)
      [] name = "lf" -> lf_access(csa, i)
      [] name = "bwt" -> bwt_access(csa, i)
      [] name = "text" -> text_access(csa, i)
      [] name = "isa" -> isa_access(csa, i)

\* the record of an operation on objects: before is the heap it started from
ObjCall(op, o, src, i, ret) ==
    [op |-> op, o |-> o, src |-> src, i |-> i, c |-> 0, ret |-> ret, before |-> heap]

Idle == call = NoCall /\ UNCHANGED <<text, m_sa, m_isa, m_alphabet, m_v, stream, cls>>

obj_default_construct(o) ==
    /\ Idle
    /\ ~heap[o].live
    /\ heap' = default_ctor(heap, o)
    /\ call' = ObjCall("default_construct", o, o, 0, 0)

obj_construct(o, t) ==
    /\ Idle
    /\ ~heap[o].live
    /\ heap' = data_ctor(heap, o, t)
    /\ call' = ObjCall("construct", o, o, 0, 0)

obj_copy_construct(o, src) ==
    /\ Idle
    /\ ~heap[o].live
    /\ heap[src].live
    /\ heap' = copy_ctor(heap, o, src)
    /\ call' = ObjCall("copy_construct", o, src, 0, 0)

obj_move_construct(o, src) ==
    /\ Idle
    /\ ~heap[o].live
    /\ heap[src].live
    /\ heap' = move_ctor(heap, o, src)
    /\ call' = ObjCall("move_construct", o, src, 0, 0)

obj_copy_assign(o, src) ==
    /\ Idle
    /\ heap[o].live
    /\ heap[src].live
    /\ heap' = copy_assign(heap, o, src)
    /\ call' = ObjCall("copy_assign", o, src, 0, 0)

obj_move_assign(o, src) ==
    /\ Idle
    /\ heap[o].live
    /\ heap[src].live
    /\ heap' = move_assign(heap, o, src)
    /\ call' = ObjCall("move_assign", o, src, 0, 0)

obj_swap(x, y) ==
    /\ Idle
    /\ heap[x].live
    /\ heap[y].live
    /\ heap' = std_swap(heap, x, y)
    /\ call' = ObjCall("swap", x, y, 0, 0)

obj_destroy(o) ==
    /\ Idle
    /\ heap[o].live
    /\ heap' = destroy(heap, o)
    /\ call' = ObjCall("destroy", o, o, 0, 0)

\* operator[] of object o
obj_sa(o, i) ==
    /\ Idle
    /\ heap[o].live
    /\ i < size(Members(heap, o))
    /\ call' = ObjCall("obj_sa", o, o, i, sa_access(Members(heap, o), i))
    /\ UNCHANGED heap

\* size() and empty() of object o
obj_size(o) ==
    /\ Idle
    /\ heap[o].live
    /\ call' = ObjCall("obj_size", o, o, 0,
                       [size |-> size(Members(heap, o)),
                        empty |-> (VecLen(heap[o].m_sa) = 0)])
    /\ UNCHANGED heap

\* o.psi[i], o.lf[i], o.bwt[i], o.text[i], o.isa[i]
obj_view(o, name, i) ==
    /\ Idle
    /\ heap[o].live
    /\ i < size(Members(heap, o))
    /\ \E csa \in ViewTargets(heap, o) :
          /\ i < size(csa)
          /\ call' = ObjCall("obj_view", o, o, i,
                             [name |-> name, val |-> view_access(name, csa, i)])
    /\ UNCHANGED heap

obj_return ==
    /\ call # NoCall
    /\ call' = NoCall
    /\ UNCHANGED <<text, m_sa, m_isa, m_alphabet, m_v, heap, stream, cls>>

InitObjs ==
    /\ text = EmptyVec
    /\ m_sa = EmptyVec
    /\ m_isa = EmptyVec
    /\ m_alphabet = EmptyAlphabet
    /\ m_v = EmptyBitVector
    /\ call = NoCall
    /\ heap = [o \in Objects \cup {Tmp} |-> NoObject]
    /\ stream = NoStream
    /\ cls = "csa_bitcompressed"

NextObjs ==
    \/ \E o \in Objects : obj_default_construct(o)
    \/ \E o \in Objects, t \in ObjTexts : obj_construct(o, t)
    \/ \E o, src \in Objects : obj_copy_construct(o, src)
    \/ \E o, src \in Objects : obj_move_construct(o, src)
    \/ \E o, src \in Objects : obj_copy_assign(o, src)
    \/ \E o, src \in Objects : obj_move_assign(o, src)
    \/ \E x, y \in Objects : obj_swap(x, y)
    \/ \E o \in Objects : obj_destroy(o)
    \/ \E o \in Objects, i \in 0 .. MaxObjN - 1 : obj_sa(o, i)
    \/ \E o \in Objects : obj_size(o)
    \/ \E o \in Objects, name \in ViewNames, i \in 0 .. MaxObjN - 1 : obj_view(o, name, i)
    \/ obj_return

SpecObjs == InitObjs /\ [][NextObjs]_vars

(* C12: in every state reachable by default construction, construction from
   data, copy construction, copy assignment (self-assignment included), move
   construction, move assignment and std::swap, operator[](j) of an object
   returns entry j of its suffix array, size() and empty() mirror its length
   (0 / empty after default construction), a copy leaves its source
   unchanged, swap exchanges the two states, and the psi, lf, bwt, text and
   isa views of an object read that object's own storage. *)
C12_ObjectsOwnTheirState ==
    /\ \A o \in DOMAIN heap : heap[o].live => heap[o].views = o
    /\ call.op = "obj_sa" => call.ret = heap[call.o].m_sa[call.i]
    /\ call.op = "obj_size" =>
          /\ call.ret.size = VecLen(heap[call.o].m_sa)
          /\ call.ret.empty = (VecLen(heap[call.o].m_sa) = 0)
    /\ call.op = "default_construct" =>
          /\ size(Members(heap, call.o)) = 0
          /\ heap[call.o].m_isa = EmptyVec
    /\ call.op \in {"copy_construct", "copy_assign"} =>
          /\ heap[call.src] = call.before[call.src]
          /\ Members(heap, call.o) = Members(call.before, call.src)
    /\ call.op \in {"move_construct", "move_assign"} =>
          Members(heap, call.o) = Members(call.before, call.src)
    /\ call.op = "swap" =>
          /\ Members(heap, call.o) = Members(call.before, call.src)
          /\ Members(heap, call.src) = Members(call.before, call.o)
    /\ call.op = "obj_view" =>
          call.ret.val = view_access(call.ret.name, Members(heap, call.o), call.i)
    /\ call.op \in {"default_construct", "construct", "copy_construct", "copy_assign",
                    "move_construct", "move_assign", "swap", "destroy"} =>
          \A p \in Objects \ {call.o, call.src} : heap[p] = call.before[p]

C12_Witness ==
    /\ call.op = "obj_view"
    /\ call.o = "b"
    /\ call.ret.name = "bwt"
    /\ heap["b"].m_sa # EmptyVec
    /\ heap["a"].live
    /\ heap["a"].m_sa # heap["b"].m_sa
    /\ VecLen(heap["a"].m_sa) = VecLen(heap["b"].m_sa)

C12_WitnessSwap ==
    /\ call.op = "swap"
    /\ call.o # call.src
    /\ heap[call.o].m_sa # heap[call.src].m_sa
    /\ VecLen(heap[call.o].m_sa) = MaxObjN

-----------------------------------------------------------------------------
(* The composite structures: vlc_vector, rmq_succinct_sada, wt_gmr_rs,
   wt_gmr with its inv_multi_perm_support m_ips, a stand-alone
   inv_multi_perm_support, and csa_bitcompressed as far as it is written to
   a stream.  An object is a record of its fields.  The values of vectors
   and of the tables of support structures are tokens <<field, x>> of the
   input x the object was built from; a support structure is its table and
   the pointer ptr to the vector it supports.  A pointer is the path of a
   field, <<object, field>>, or Null. *)

MaxInput == 1      \* largest input (its size) a structure is built from

\* the default sampling density t_dens of vlc_vector
DefaultDens == 128

Null == <<>>
Num(n) == <<"n", n>>                   \* a scalar with the value n
Indeterminate == <<"indeterminate">>   \* an uninitialized scalar
Garbage == <<"garbage">>               \* bytes read as something they are not
EmptyTok == <<"empty">>                \* an empty or moved-from vector or table
Dead == [cls |-> "none"]               \* storage that holds no object

\* the permutation a stand-alone inv_multi_perm_support supports
Perm == "perm"

Classes == {"csa", "vlc", "rmq", "wt_gmr_rs", "wt_gmr", "ips"}

\* the fields in the order of their declaration
Decl(c) ==
    CASE c = "csa" -> <<"m_sa", "m_isa", "m_alphabet">>
      [] c = "vlc" -> <<"m_z", "m_sample_pointer", "m_size", "m_sample_dens">>
      [] c = "rmq" -> <<"m_ect_bp", "m_ect_bp_support", "m_ect_bp_rank10",
                          "m_ect_bp_select10">>
      [] c = "wt_gmr_rs" -> <<"m_bv_blocks", "m_e", "m_bv_blocks_select1",
                                "m_bv_blocks_select0", "m_size", "m_block_size",
                                "m_blocks", "m_sigma">>
      [] c = "wt_gmr" -> <<"m_bv_blocks", "m_bv_chunks", "m_perm", "m_ips",
                             "m_bv_blocks_select1", "m_bv_chunks_select1",
                             "m_bv_blocks_select0", "m_bv_chunks_select0",
                             "m_size", "m_max_symbol", "m_chunks", "m_chunksize",
                             "m_sigma">>
      [] c = "ips" -> <<"m_perm", "m_chunksize", "m_back_pointer", "m_marked",
                          "m_marked_rank">>

\* what a field is: a scalar, a vector, a support structure with a table
\* and a pointer to its vector, a bare pointer, or a nested object
KindOf(c, f) ==
    CASE f \in {"m_size", "m_sample_dens", "m_block_size", "m_blocks", "m_sigma",
                "m_max_symbol", "m_chunks", "m_chunksize"} -> "scalar"
      [] c = "ips" /\ f = "m_perm" -> "pointer"
      [] f = "m_ips" -> "object"
      [] f \in {"m_ect_bp_support", "m_ect_bp_rank10", "m_ect_bp_select10",
                "m_bv_blocks_select1",
                "m_bv_blocks_select0", "m_bv_chunks_select1", "m_bv_chunks_select0",
                "m_marked_rank"} -> "support"
      [] OTHER -> "vector"

\* the vector each support structure of a class belongs to
Supported(c) ==
    CASE c = "rmq" -> [m_ect_bp_support |-> "m_ect_bp", m_ect_bp_rank10 |-> "m_ect_bp",
                         m_ect_bp_select10 |-> "m_ect_bp"]
      [] c = "wt_gmr_rs" -> [m_bv_blocks_select1 |-> "m_bv_blocks",
                               m_bv_blocks_select0 |-> "m_bv_blocks"]
      [] c = "wt_gmr" -> [m_bv_blocks_select1 |-> "m_bv_blocks",
                            m_bv_blocks_select0 |-> "m_bv_blocks",
                            m_bv_chunks_select1 |-> "m_bv_chunks",
                            m_bv_chunks_select0 |-> "m_bv_chunks"]
      [] c = "ips" -> [m_marked_rank |-> "m_marked"]
      [] OTHER -> <<>>

RECURSIVE Get(_, _)
Get(h, p) == IF p = <<>> THEN h ELSE Get(h[Head(p)], Tail(p))

RECURSIVE Set(_, _, _)
Set(h, p, v) ==
    IF p = <<>> THEN v
    ELSE (Head(p) :> Set(h[Head(p)], Tail(p), v)) @@ h

\* the value of a field after default construction
RECURSIVE DefaultField(_, _)
DefaultField(c, f) ==
    CASE KindOf(c, f) = "vector" -> EmptyTok
      [] KindOf(c, f) = "support" -> [table |-> EmptyTok, ptr |-> Null]
      [] KindOf(c, f) = "pointer" -> Null
      [] KindOf(c, f) = "object" ->
            [g \in {"cls"} \cup {Decl("ips")[j] : j \in 1 .. Len(Decl("ips"))} |->
                IF g = "cls" THEN "ips" ELSE DefaultField("ips", g)]
      [] KindOf(c, f) = "scalar" ->
            IF c = "vlc" /\ f = "m_size" THEN Num(0)
            ELSE IF c = "vlc" /\ f = "m_sample_dens" THEN Num(DefaultDens)
            ELSE IF f \in {"m_block_size", "m_sigma", "m_max_symbol"} THEN Num(0)
            ELSE Indeterminate

DefaultObject(c) ==
    [g \in {"cls"} \cup {Decl(c)[j] : j \in 1 .. Len(Decl(c))} |->
        IF g = "cls" THEN c ELSE DefaultField(c, g)]

\* the value of a field of the object at path this built from input x
RECURSIVE BuiltField(_, _, _, _)
BuiltField(c, f, this, x) ==
    CASE KindOf(c, f) = "vector" -> <<f, x>>
      [] KindOf(c, f) = "support" ->
            [table |-> <<f, x>>, ptr |-> this \o <<Supported(c)[f]>>]
      [] KindOf(c, f) = "pointer" ->
            IF Len(this) = 1 THEN <<Perm, "v">> ELSE SubSeq(this, 1, Len(this) - 1) \o <<"m_perm">>
      [] KindOf(c, f) = "object" ->
            [g \in {"cls"} \cup {Decl("ips")[j] : j \in 1 .. Len(Decl("ips"))} |->
                IF g = "cls" THEN "ips" ELSE BuiltField("ips", g, this \o <<f>>, x)]
      [] KindOf(c, f) = "scalar" ->
            IF f = "m_size" THEN Num(x)
            ELSE IF f = "m_sample_dens" THEN Num(DefaultDens)
            ELSE <<f, x>>

\* the object at path this constructed from input x; a vlc_vector of an
\* empty container and an rmq_succinct_sada of no container are as default
\* constructed
BuiltObject(c, this, x) ==
    IF c = "vlc" /\ x = 0 THEN DefaultObject(c)
    ELSE [g \in {"cls"} \cup {Decl(c)[j] : j \in 1 .. Len(Decl(c))} |->
             IF g = "cls" THEN c ELSE BuiltField(c, g, this, x)]

\* a field after it has been moved from
MovedFrom(c, f, v) ==
    CASE KindOf(c, f) = "vector" -> EmptyTok
      [] KindOf(c, f) = "support" -> [v EXCEPT !.table = EmptyTok]
      [] OTHER -> v

(* The member functions as lists of steps.
   copy f: this->f is copy-constructed or copy-assigned from src.f;
   move f: this->f is move-constructed or move-assigned from src.f;
   bind p t: the pointer at this->p is set to &this->t (set_vector);
   bindarg p: the pointer at this->p is set to the argument v;
   sub op f: member function op of the nested object f, from src.f;
   write f / read f: f is written to / read from the stream; reading a
   support structure from a std::istream takes the supported vector t;
   ar f: f is read from a cereal archive. *)
Cp(f) == [k |-> "copy", f |-> f, p |-> <<>>, t |-> <<>>, op |-> ""]
Mv(f) == [k |-> "move", f |-> f, p |-> <<>>, t |-> <<>>, op |-> ""]
Bind(p, t) == [k |-> "bind", f |-> "", p |-> p, t |-> t, op |-> ""]
BindArg(p) == [k |-> "bindarg", f |-> "", p |-> p, t |-> <<>>, op |-> ""]
SubOp(op, f, t) == [k |-> "sub", f |-> f, p |-> <<>>, t |-> t, op |-> op]
Wr(f) == [k |-> "write", f |-> f, p |-> <<>>, t |-> <<>>, op |-> ""]
Rd(f) == [k |-> "read", f |-> f, p |-> <<>>, t |-> <<>>, op |-> ""]
RdSup(f, t) == [k |-> "readsup", f |-> f, p |-> <<>>, t |-> <<t>>, op |-> ""]
Ar(f) == [k |-> "ar", f |-> f, p |-> <<>>, t |-> <<>>, op |-> ""]

\* set_vector of support structure f to the sibling vector t
SetVector(f, t) == Bind(<<f, "ptr">>, <<t>>)

copy_ctor_steps_rmq_unbound ==
    <<Cp("m_ect_bp"), Cp("m_ect_bp_support"), Cp("m_ect_bp_rank10"),
      Cp("m_ect_bp_select10"),
      SetVector("m_ect_bp_support", "m_ect_bp"),
      SetVector("m_ect_bp_rank10", "m_ect_bp")>>
copy_ctor_steps_rmq ==
    <<Cp("m_ect_bp"), Cp("m_ect_bp_support"), Cp("m_ect_bp_rank10"),
      Cp("m_ect_bp_select10"),
      SetVector("m_ect_bp_support", "m_ect_bp"),
      SetVector("m_ect_bp_rank10", "m_ect_bp"),
      SetVector("m_ect_bp_select10", "m_ect_bp")>>

copy_ctor_steps(c) ==
    CASE c = "csa" -> <<Cp("m_sa"), Cp("m_isa"), Cp("m_alphabet")>>
      [] c = "vlc" -> <<Cp("m_z"), Cp("m_sample_pointer"), Cp("m_size"),
                          Cp("m_sample_dens")>>
      [] c = "rmq" -> copy_ctor_steps_rmq
      [] c = "wt_gmr_rs" ->
            <<Cp("m_bv_blocks"), Cp("m_e"), Cp("m_bv_blocks_select1"),
              Cp("m_bv_blocks_select0"), Cp("m_size"), Cp("m_block_size"),
              Cp("m_blocks"), Cp("m_sigma"),
              SetVector("m_bv_blocks_select1", "m_bv_blocks"),
              SetVector("m_bv_blocks_select0", "m_bv_blocks")>>
      [] c = "wt_gmr" ->
            <<Cp("m_bv_blocks"), Cp("m_bv_chunks"), Cp("m_perm"),
              SubOp("copy_ctor", "m_ips", <<>>),
              Cp("m_bv_blocks_select1"), Cp("m_bv_chunks_select1"),
              Cp("m_bv_blocks_select0"), Cp("m_bv_chunks_select0"),
              Cp("m_size"), Cp("m_max_symbol"), Cp("m_chunks"), Cp("m_chunksize"),
              Cp("m_sigma"),
              Bind(<<"m_ips", "m_perm">>, <<"m_perm">>),
              SetVector("m_bv_blocks_select1", "m_bv_blocks"),
              SetVector("m_bv_chunks_select1", "m_bv_chunks"),
              SetVector("m_bv_blocks_select0", "m_bv_blocks"),
              SetVector("m_bv_chunks_select0", "m_bv_chunks")>>
      [] c = "ips" ->
            <<Cp("m_perm"), Cp("m_chunksize"), Cp("m_back_pointer"), Cp("m_marked"),
              Cp("m_marked_rank"), SetVector("m_marked_rank", "m_marked")>>

\* the move constructors with a member initializer list; those of
\* rmq_succinct_sada and inv_multi_perm_support call the move assignment
move_ctor_steps(c) ==
    CASE c = "csa" -> <<Mv("m_sa"), Mv("m_isa"), Mv("m_alphabet")>>
      [] c = "vlc" -> <<Mv("m_z"), Mv("m_sample_pointer"), Mv("m_size"),
                          Mv("m_sample_dens")>>
      [] c = "wt_gmr_rs" ->
            <<Mv("m_bv_blocks"), Mv("m_e"), Mv("m_bv_blocks_select1"),
              Mv("m_bv_blocks_select0"), Cp("m_size"), Cp("m_block_size"),
              Cp("m_blocks"), Cp("m_sigma"),
              SetVector("m_bv_blocks_select1", "m_bv_blocks"),
              SetVector("m_bv_blocks_select0", "m_bv_blocks")>>
      [] c = "wt_gmr" ->
            <<Mv("m_bv_blocks"), Mv("m_bv_chunks"), Mv("m_perm"),
              SubOp("move_ctor", "m_ips", <<>>),
              Mv("m_bv_blocks_select1"), Mv("m_bv_chunks_select1"),
              Mv("m_bv_blocks_select0"), Mv("m_bv_chunks_select0"),
              Cp("m_size"), Cp("m_max_symbol"), Cp("m_chunks"), Cp("m_chunksize"),
              Cp("m_sigma"),
              Bind(<<"m_ips", "m_perm">>, <<"m_perm">>),
              SetVector("m_bv_blocks_select1", "m_bv_blocks"),
              SetVector("m_bv_chunks_select1", "m_bv_chunks"),
              SetVector("m_bv_blocks_select0", "m_bv_blocks"),
              SetVector("m_bv_chunks_select0", "m_bv_chunks")>>
      [] OTHER -> <<>>

move_assign_steps(c) ==
    CASE c = "csa" -> <<Mv("m_sa"), Mv("m_isa"), Mv("m_alphabet")>>
      [] c = "vlc" -> <<Mv("m_z"), Mv("m_sample_pointer"), Mv("m_size"),
                          Mv("m_sample_dens")>>
      [] c = "rmq" ->
            <<Mv("m_ect_bp"),
              Mv("m_ect_bp_support"), SetVector("m_ect_bp_support", "m_ect_bp"),
              Mv("m_ect_bp_rank10"), SetVector("m_ect_bp_rank10", "m_ect_bp"),
              Mv("m_ect_bp_select10"), SetVector("m_ect_bp_select10", "m_ect_bp")>>
      [] c = "wt_gmr_rs" ->
            <<Mv("m_bv_blocks"), Mv("m_e"),
              Mv("m_bv_blocks_select1"), SetVector("m_bv_blocks_select1", "m_bv_blocks"),
              Mv("m_bv_blocks_select0"), SetVector("m_bv_blocks_select0", "m_bv_blocks"),
              Cp("m_size"), Cp("m_block_size"), Cp("m_blocks"), Cp("m_sigma")>>
      [] c = "wt_gmr" ->
            <<Mv("m_bv_blocks"), Mv("m_bv_chunks"), Mv("m_perm"),
              SubOp("move_assign", "m_ips", <<>>),
              Bind(<<"m_ips", "m_perm">>, <<"m_perm">>),
              Mv("m_bv_blocks_select1"), SetVector("m_bv_blocks_select1", "m_bv_blocks"),
              Mv("m_bv_chunks_select1"), SetVector("m_bv_chunks_select1", "m_bv_chunks"),
              Mv("m_bv_blocks_select0"), SetVector("m_bv_blocks_select0", "m_bv_blocks"),
              Mv("m_bv_chunks_select0"), SetVector("m_bv_chunks_select0", "m_bv_chunks"),
              Cp("m_size"), Cp("m_max_symbol"), Cp("m_chunks"), Cp("m_chunksize"),
              Cp("m_sigma")>>
      [] c = "ips" ->
            <<Mv("m_perm"), Mv("m_chunksize"), Mv("m_back_pointer"), Mv("m_marked"),
              Mv("m_marked_rank"), SetVector("m_marked_rank", "m_marked")>>

\* the copy assignments that assign member by member; the others copy into
\* a temporary and move-assign from it
copy_assign_steps(c) ==
    CASE c = "vlc" -> <<Cp("m_z"), Cp("m_sample_pointer"), Cp("m_size"),
                          Cp("m_sample_dens")>>
      [] c = "ips" ->
            <<Cp("m_perm"), Cp("m_chunksize"), Cp("m_back_pointer"), Cp("m_marked"),
              Cp("m_marked_rank"), SetVector("m_marked_rank", "m_marked")>>
      [] OTHER -> <<>>

\* the assignments that test this != &src first
SelfChecked(c, op) ==
    \/ c \in {"csa", "rmq"} /\ op \in {"copy_assign", "move_assign"}
    \/ c = "ips" /\ op \in {"copy_assign", "move_assign"}

load_steps_csa == <<Rd("m_sa"), Rd("m_isa"), Rd("m_alphabet")>>

serialize_steps_vlc_decl == <<Wr("m_z"), Wr("m_sample_pointer"), Wr("m_size")>>
serialize_steps_vlc == <<Wr("m_size"), Wr("m_z"), Wr("m_sample_pointer")>>

\* serialize(std::ostream &)
serialize_steps(c) ==
    CASE c = "csa" -> <<Wr("m_sa"), Wr("m_isa"), Wr("m_alphabet")>>
      [] c = "vlc" -> serialize_steps_vlc
      [] c = "rmq" -> <<Wr("m_ect_bp"), Wr("m_ect_bp_support"), Wr("m_ect_bp_rank10"),
                          Wr("m_ect_bp_select10")>>
      [] c = "wt_gmr_rs" ->
            <<Wr("m_size"), Wr("m_block_size"), Wr("m_blocks"), Wr("m_sigma"),
              Wr("m_e"), Wr("m_bv_blocks"), Wr("m_bv_blocks_select0"),
              Wr("m_bv_blocks_select1")>>
      [] c = "wt_gmr" ->
            <<Wr("m_size"), Wr("m_max_symbol"), Wr("m_chunks"), Wr("m_chunksize"),
              Wr("m_sigma"), Wr("m_bv_blocks"), Wr("m_bv_blocks_select0"),
              Wr("m_bv_blocks_select1"), Wr("m_bv_chunks"), Wr("m_bv_chunks_select0"),
              Wr("m_bv_chunks_select1"), Wr("m_perm"),
              SubOp("serialize", "m_ips", <<>>)>>
      [] c = "ips" -> <<Wr("m_chunksize"), Wr("m_back_pointer"), Wr("m_marked"),
                          Wr("m_marked_rank")>>

\* load(std::istream &)
load_steps(c) ==
    CASE c = "csa" -> load_steps_csa
      [] c = "vlc" -> <<Rd("m_size"), Rd("m_z"), Rd("m_sample_pointer")>>
      [] c = "rmq" ->
            <<Rd("m_ect_bp"), RdSup("m_ect_bp_support", "m_ect_bp"),
              RdSup("m_ect_bp_rank10", "m_ect_bp"),
              RdSup("m_ect_bp_select10", "m_ect_bp")>>
      [] c = "wt_gmr_rs" ->
            <<Rd("m_size"), Rd("m_block_size"), Rd("m_blocks"), Rd("m_sigma"),
              Rd("m_e"), Rd("m_bv_blocks"),
              RdSup("m_bv_blocks_select0", "m_bv_blocks"),
              RdSup("m_bv_blocks_select1", "m_bv_blocks")>>
      [] c = "wt_gmr" ->
            <<Rd("m_size"), Rd("m_max_symbol"), Rd("m_chunks"), Rd("m_chunksize"),
              Rd("m_sigma"), Rd("m_bv_blocks"),
              RdSup("m_bv_blocks_select0", "m_bv_blocks"),
              RdSup("m_bv_blocks_select1", "m_bv_blocks"),
              Rd("m_bv_chunks"),
              RdSup("m_bv_chunks_select0", "m_bv_chunks"),
              RdSup("m_bv_chunks_select1", "m_bv_chunks"),
              Rd("m_perm"), SubOp("load", "m_ips", <<"m_perm">>)>>
      [] c = "ips" ->
            <<BindArg(<<"m_perm">>), Rd("m_chunksize"), Rd("m_back_pointer"),
              Rd("m_marked"), RdSup("m_marked_rank", "m_marked")>>

\* the cereal save function
cereal_save_steps(c) ==
    CASE c = "csa" -> <<Wr("m_sa"), Wr("m_isa"), Wr("m_alphabet")>>
      [] c = "vlc" -> <<Wr("m_size"), Wr("m_z"), Wr("m_sample_pointer")>>
      [] c = "rmq" -> <<Wr("m_ect_bp"), Wr("m_ect_bp_support"), Wr("m_ect_bp_rank10"),
                          Wr("m_ect_bp_select10")>>
      [] c = "wt_gmr_rs" ->
            <<Wr("m_size"), Wr("m_block_size"), Wr("m_blocks"), Wr("m_sigma"),
              Wr("m_e"), Wr("m_bv_blocks"), Wr("m_bv_blocks_select0"),
              Wr("m_bv_blocks_select1")>>
      [] c = "wt_gmr" ->
            <<Wr("m_size"), Wr("m_max_symbol"), Wr("m_chunks"), Wr("m_chunksize"),
              Wr("m_sigma"), Wr("m_bv_blocks"), Wr("m_bv_blocks_select0"),
              Wr("m_bv_blocks_select1"), Wr("m_bv_chunks"), Wr("m_bv_chunks_select0"),
              Wr("m_bv_chunks_select1"), Wr("m_perm"),
              SubOp("cereal_save", "m_ips", <<>>)>>
      [] c = "ips" -> <<Wr("m_chunksize"), Wr("m_back_pointer"), Wr("m_marked"),
                          Wr("m_marked_rank")>>

\* the cereal load function
cereal_load_steps(c) ==
    CASE c = "csa" -> <<Ar("m_sa"), Ar("m_isa"), Ar("m_alphabet")>>
      [] c = "vlc" -> <<Ar("m_size"), Ar("m_z"), Ar("m_sample_pointer")>>
      [] c = "rmq" ->
            <<Ar("m_ect_bp"),
              Ar("m_ect_bp_support"), SetVector("m_ect_bp_support", "m_ect_bp"),
              Ar("m_ect_bp_rank10"), SetVector("m_ect_bp_rank10", "m_ect_bp"),
              Ar("m_ect_bp_select10"), SetVector("m_ect_bp_select10", "m_ect_bp")>>
      [] c = "wt_gmr_rs" ->
            <<Ar("m_size"), Ar("m_block_size"), Ar("m_blocks"), Ar("m_sigma"),
              Ar("m_e"), Ar("m_bv_blocks"),
              Ar("m_bv_blocks_select0"), SetVector("m_bv_blocks_select0", "m_bv_blocks"),
              Ar("m_bv_blocks_select1"), SetVector("m_bv_blocks_select1", "m_bv_blocks")>>
      [] c = "wt_gmr" ->
            <<Ar("m_size"), Ar("m_max_symbol"), Ar("m_chunks"), Ar("m_chunksize"),
              Ar("m_sigma"), Ar("m_bv_blocks"),
              Ar("m_bv_blocks_select0"), SetVector("m_bv_blocks_select0", "m_bv_blocks"),
              Ar("m_bv_blocks_select1"), SetVector("m_bv_blocks_select1", "m_bv_blocks"),
              Ar("m_bv_chunks"),
              Ar("m_bv_chunks_select0"), SetVector("m_bv_chunks_select0", "m_bv_chunks"),
              Ar("m_bv_chunks_select1"), SetVector("m_bv_chunks_select1", "m_bv_chunks"),
              Ar("m_perm"), SubOp("cereal_load", "m_ips", <<>>),
              Bind(<<"m_ips", "m_perm">>, <<"m_perm">>)>>
      [] c = "ips" ->
            <<Ar("m_chunksize"), Ar("m_back_pointer"), Ar("m_marked"),
              Ar("m_marked_rank"), SetVector("m_marked_rank", "m_marked")>>

StepsOf(op, c) ==
    CASE op = "copy_ctor" -> copy_ctor_steps(c)
      [] op = "move_ctor" -> move_ctor_steps(c)
      [] op = "move_assign" -> move_assign_steps(c)
      [] op = "copy_assign" -> copy_assign_steps(c)
      [] op = "serialize" -> serialize_steps(c)
      [] op = "load" -> load_steps(c)
      [] op = "cereal_save" -> cereal_save_steps(c)
      [] op = "cereal_load" -> cereal_load_steps(c)

\* the serialized form of a field: a support structure writes its table,
\* never its pointer
Form(c, f, v) ==
    CASE KindOf(c, f) = "support" -> <<[kind |-> "support", val |-> v.table]>>
      [] OTHER -> <<[kind |-> KindOf(c, f), val |-> v]>>

\* the value read for a field of the given kind from the items in
ReadValue(kind, in) ==
    IF in = <<>> \/ Head(in).kind # kind THEN Garbage ELSE Head(in).val

\* one run of a member function: the heap h, the items still to be read in
\* and the items written out
RunState(h, in, out) == [h |-> h, in |-> in, out |-> out]

RECURSIVE Run(_, _, _, _, _)
RECURSIVE Apply(_, _, _, _, _)

\* the steps of a member function of the object at path this, with the
\* other object at path src and the pointer argument arg
Run(st, this, src, arg, steps) ==
    IF steps = <<>> THEN st
    ELSE
      LET s == Head(steps)
          c == Get(st.h, this).cls
          next ==
            CASE s.k = "copy" ->
                    [st EXCEPT !.h = Set(st.h, this \o <<s.f>>, Get(st.h, src \o <<s.f>>))]
              [] s.k = "move" ->
                    IF this = src THEN st
                    ELSE LET v == Get(st.h, src \o <<s.f>>)
                         IN  [st EXCEPT !.h = Set(Set(st.h, this \o <<s.f>>, v),
                                                  src \o <<s.f>>, MovedFrom(c, s.f, v))]
              [] s.k = "bind" ->
                    [st EXCEPT !.h = Set(st.h, this \o s.p, this \o s.t)]
              [] s.k = "bindarg" ->
                    [st EXCEPT !.h = Set(st.h, this \o s.p, arg)]
              [] s.k = "sub" ->
                    Apply(st, s.op, this \o <<s.f>>, src \o <<s.f>>,
                          IF s.t = <<>> THEN Null ELSE this \o s.t)
              [] s.k = "write" ->
                    [st EXCEPT !.out = st.out \o Form(c, s.f, Get(st.h, this \o <<s.f>>))]
              [] s.k = "read" ->
                    [st EXCEPT !.h = Set(st.h, this \o <<s.f>>,
                                         ReadValue(KindOf(c, s.f), st.in)),
                               !.in = IF st.in = <<>> THEN <<>> ELSE Tail(st.in)]
              [] s.k = "readsup" ->
                    [st EXCEPT !.h = Set(st.h, this \o <<s.f>>,
                                         [table |-> ReadValue("support", st.in),
                                          ptr |-> this \o s.t]),
                               !.in = IF st.in = <<>> THEN <<>> ELSE Tail(st.in)]
              [] s.k = "ar" ->
                    IF KindOf(c, s.f) = "support"
                    THEN [st EXCEPT !.h = Set(st.h, this \o <<s.f, "table">>,
                                              ReadValue("support", st.in)),
                                    !.in = IF st.in = <<>> THEN <<>> ELSE Tail(st.in)]
                    ELSE [st EXCEPT !.h = Set(st.h, this \o <<s.f>>,
                                              ReadValue(KindOf(c, s.f), st.in)),
                                    !.in = IF st.in = <<>> THEN <<>> ELSE Tail(st.in)]
      IN  Run(next, this, src, arg, Tail(steps))

\* member function op of the object at path this.  A constructor runs on
\* default-initialized members; the move constructors of rmq_succinct_sada,
\* inv_multi_perm_support and csa_bitcompressed are *this = std::move(src);
\* a copy assignment without steps of its own is T tmp(src);
\* *this = std::move(tmp)
Apply(st, op, this, src, arg) ==
    LET c == IF op \in {"copy_ctor", "move_ctor"}
               THEN Get(st.h, src).cls ELSE Get(st.h, this).cls
        fresh == [st EXCEPT !.h = Set(st.h, this, DefaultObject(c))]
    IN  CASE op = "copy_ctor" -> Run(fresh, this, src, arg, copy_ctor_steps(c))
          [] op = "move_ctor" ->
                IF c \in {"rmq", "ips", "csa"}
                THEN Apply(fresh, "move_assign", this, src, arg)
                ELSE Run(fresh, this, src, arg, move_ctor_steps(c))
          [] op = "move_assign" ->
                IF SelfChecked(c, op) /\ this = src THEN st
                ELSE Run(st, this, src, arg, move_assign_steps(c))
          [] op = "copy_assign" ->
                IF SelfChecked(c, op) /\ this = src THEN st
                ELSE IF copy_assign_steps(c) # <<>>
                THEN Run(st, this, src, arg, copy_assign_steps(c))
                ELSE LET st1 == Apply(st, "copy_ctor", <<Tmp>>, src, arg)
                         st2 == Apply(st1, "move_assign", this, <<Tmp>>, arg)
                     IN  [st2 EXCEPT !.h = Set(st2.h, <<Tmp>>, Dead)]
          [] OTHER -> Run(st, this, src, arg, StepsOf(op, c))

\* what a pointer refers to: the value of a field of a living object
Deref(h, ptr) ==
    IF ptr = Null THEN <<"null">>
    ELSE IF h[Head(ptr)].cls = "none" THEN <<"dangling">>
    ELSE Get(h, ptr)

\* the number of elements of a vector
VecSize(v) ==
    IF v \in {EmptyTok, Garbage, <<"null">>, <<"dangling">>} THEN Num(0) ELSE Num(v[2])

\* size() of the object at path p
Size(h, p) ==
    LET o == Get(h, p)
    IN  CASE o.cls = "csa" -> VecSize(o.m_sa)
          [] o.cls = "rmq" -> VecSize(o.m_ect_bp)
          [] o.cls = "ips" -> IF o.m_perm = Null THEN Num(0) ELSE VecSize(Deref(h, o.m_perm))
          [] OTHER -> o.m_size

\* what the queries of the object at path p read: its scalars and vectors,
\* the tables of its support structures and the vectors they point to
RECURSIVE Observe(_, _)
Observe(h, p) ==
    LET o == Get(h, p)
        c == o.cls
    IN  [g \in {"size"} \cup {Decl(c)[j] : j \in 1 .. Len(Decl(c))} |->
            IF g = "size" THEN Size(h, p)
            ELSE CASE KindOf(c, g) = "support" ->
                         [table |-> o[g].table, vector |-> Deref(h, o[g].ptr)]
                   [] KindOf(c, g) = "pointer" -> Deref(h, o[g])
                   [] KindOf(c, g) = "object" -> Observe(h, p \o <<g>>)
                   [] OTHER -> o[g]]

\* the size and, where there are valid indices, what the queries read
Queries(h, p) ==
    IF Size(h, p) \in {Indeterminate, Garbage, Num(0)}
    THEN [size |-> Size(h, p)]
    ELSE Observe(h, p)

\* the members operator== compares, in its order
eq_fields(c) ==
    CASE c = "csa" -> <<"m_sa", "m_isa", "m_alphabet">>
      [] c = "vlc" -> <<"m_z", "m_sample_pointer">>
      [] c = "rmq" -> <<"m_ect_bp", "m_ect_bp_support", "m_ect_bp_rank10",
                        "m_ect_bp_select10">>
      [] c = "wt_gmr_rs" -> <<"m_size", "m_block_size", "m_blocks", "m_sigma", "m_e",
                              "m_bv_blocks", "m_bv_blocks_select0", "m_bv_blocks_select1">>
      [] c = "wt_gmr" -> <<"m_size", "m_max_symbol", "m_chunks", "m_chunksize", "m_sigma",
                           "m_bv_blocks", "m_bv_blocks_select0", "m_bv_blocks_select1",
                           "m_bv_chunks", "m_bv_chunks_select0", "m_bv_chunks_select1",
                           "m_perm", "m_ips">>
      [] c = "ips" -> <<"m_chunksize", "m_back_pointer", "m_marked", "m_marked_rank">>

\* operator== of the objects at p (in heap h) and q (in heap g): the members
\* are compared in order and && stops at the first false; a support
\* structure compares its table
RECURSIVE EqualFrom(_, _, _, _, _)
EqualFrom(h, p, g, q, fs) ==
    IF fs = <<>> THEN TRUE
    ELSE
      LET f == Head(fs)
          c == Get(h, p).cls
          a == Get(h, p \o <<f>>)
          b == Get(g, q \o <<f>>)
          one == CASE KindOf(c, f) = "support" -> a.table = b.table
                   [] KindOf(c, f) = "object" ->
                        EqualFrom(h, p \o <<f>>, g, q \o <<f>>, eq_fields("ips"))
                   [] OTHER -> a = b
      IN  one /\ EqualFrom(h, p, g, q, Tail(fs))

\* vlc_vector::operator== starts with m_size && v.m_size
Equal(h, p, g, q) ==
    IF Get(h, p).cls = "vlc" /\ (Get(h, p).m_size = Num(0) \/ Get(g, q).m_size = Num(0))
    THEN FALSE
    ELSE EqualFrom(h, p, g, q, eq_fields(Get(h, p).cls))

-----------------------------------------------------------------------------
(* Specification of the composite structures: objects a and b of one class
   are constructed, copied, moved, assigned, destroyed, written to a stream
   or a cereal archive and loaded from it *)

Inputs == 0 .. MaxInput

Live(h, o) == h[o].cls # "none"

CompCall(op, o, src, ret) ==
    [op |-> op, o |-> o, src |-> src, i |-> 0, c |-> 0, ret |-> ret]

\* the written object, and the permutation it supports, as they were when
\* the stream was written
Written(h, o) == [k \in DOMAIN h |-> IF k \in {o, Perm} THEN h[k] ELSE Dead]

CompIdle == call = NoCall /\ UNCHANGED <<text, m_sa, m_isa, m_alphabet, m_v, cls>>

\* the pointers load may be given for the supported permutation
LoadArgs == IF cls = "ips" THEN {Null, <<Perm, "v">>} ELSE {Null}

comp_default_construct(o) ==
    /\ CompIdle
    /\ ~Live(heap, o)
    /\ heap' = [heap EXCEPT ![o] = DefaultObject(cls)]
    /\ call' = CompCall("comp_default_construct", o, o, 0)
    /\ UNCHANGED stream

comp_construct(o, x) ==
    /\ CompIdle
    /\ ~Live(heap, o)
    /\ cls = "ips" => heap[Perm].v = <<"perm", x>>
    /\ heap' = [heap EXCEPT ![o] = BuiltObject(cls, <<o>>, x)]
    /\ call' = CompCall("comp_construct", o, o, 0)
    /\ UNCHANGED stream

comp_copy_construct(o, src) ==
    /\ CompIdle
    /\ ~Live(heap, o)
    /\ Live(heap, src)
    /\ heap' = Apply(RunState(heap, <<>>, <<>>), "copy_ctor", <<o>>, <<src>>, Null).h
    /\ call' = CompCall("comp_copy_construct", o, src, 0)
    /\ UNCHANGED stream

comp_move_construct(o, src) ==
    /\ CompIdle
    /\ ~Live(heap, o)
    /\ Live(heap, src)
    /\ heap' = Apply(RunState(heap, <<>>, <<>>), "move_ctor", <<o>>, <<src>>, Null).h
    /\ call' = CompCall("comp_move_construct", o, src, 0)
    /\ UNCHANGED stream

comp_copy_assign(o, src) ==
    /\ CompIdle
    /\ Live(heap, o)
    /\ Live(heap, src)
    /\ heap' = Apply(RunState(heap, <<>>, <<>>), "copy_assign", <<o>>, <<src>>, Null).h
    /\ call' = CompCall("comp_copy_assign", o, src, 0)
    /\ UNCHANGED stream

comp_move_assign(o, src) ==
    /\ CompIdle
    /\ Live(heap, o)
    /\ Live(heap, src)
    /\ heap' = Apply(RunState(heap, <<>>, <<>>), "move_assign", <<o>>, <<src>>, Null).h
    /\ call' = CompCall("comp_move_assign", o, src, 0)
    /\ UNCHANGED stream

comp_destroy(o) ==
    /\ CompIdle
    /\ Live(heap, o)
    /\ heap' = [heap EXCEPT ![o] = Dead]
    /\ call' = CompCall("comp_destroy", o, o, 0)
    /\ UNCHANGED stream

\* serialize(out): the stream remembers the object it was written from
comp_serialize(o) ==
    /\ CompIdle
    /\ Live(heap, o)
    /\ stream' = [cls |-> cls, kind |-> "stream", from |-> o, heap |-> Written(heap, o),
                  items |-> Apply(RunState(heap, <<>>, <<>>), "serialize",
                                  <<o>>, <<o>>, Null).out]
    /\ call' = CompCall("comp_serialize", o, o, 0)
    /\ UNCHANGED heap

comp_cereal_save(o) ==
    /\ CompIdle
    /\ Live(heap, o)
    /\ stream' = [cls |-> cls, kind |-> "archive", from |-> o, heap |-> Written(heap, o),
                  items |-> Apply(RunState(heap, <<>>, <<>>), "cereal_save",
                                  <<o>>, <<o>>, Null).out]
    /\ call' = CompCall("comp_cereal_save", o, o, 0)
    /\ UNCHANGED heap

\* load(in) of object o from the stream just written; ret is what is left
\* unread
comp_load(o, v) ==
    /\ call # NoCall
    /\ call.op = "comp_serialize"
    /\ Live(heap, o)
    /\ LET st == Apply(RunState(heap, stream.items, <<>>), "load", <<o>>, <<o>>, v)
       IN  /\ heap' = st.h
           /\ call' = [CompCall("comp_load", o, stream.from, st.in) EXCEPT !.c = v]
    /\ UNCHANGED <<text, m_sa, m_isa, m_alphabet, m_v, stream, cls>>

comp_cereal_load(o) ==
    /\ call # NoCall
    /\ call.op = "comp_cereal_save"
    /\ Live(heap, o)
    /\ LET st == Apply(RunState(heap, stream.items, <<>>), "cereal_load", <<o>>, <<o>>, Null)
       IN  /\ heap' = st.h
           /\ call' = CompCall("comp_cereal_load", o, stream.from, st.in)
    /\ UNCHANGED <<text, m_sa, m_isa, m_alphabet, m_v, stream, cls>>

\* the call returns; the stream or archive goes out of scope
comp_return ==
    /\ call # NoCall
    /\ call' = NoCall
    /\ stream' = NoStream
    /\ UNCHANGED <<text, m_sa, m_isa, m_alphabet, m_v, heap, cls>>

InitComp ==
    /\ text = EmptyVec
    /\ m_sa = EmptyVec
    /\ m_isa = EmptyVec
    /\ m_alphabet = EmptyAlphabet
    /\ m_v = EmptyBitVector
    /\ call = NoCall
    /\ cls \in Classes
    /\ \E x \in Inputs :
          heap = [o \in Objects \cup {Tmp, Perm} |->
                     IF o = Perm /\ cls = "ips"
                     THEN [cls |-> "int_vector", v |-> <<"perm", x>>]
                     ELSE Dead]
    /\ stream = NoStream

NextComp ==
    \/ \E o \in Objects : comp_default_construct(o)
    \/ \E o \in Objects, x \in Inputs : comp_construct(o, x)
    \/ \E o, src \in Objects : comp_copy_construct(o, src)
    \/ \E o, src \in Objects : comp_move_construct(o, src)
    \/ \E o, src \in Objects : comp_copy_assign(o, src)
    \/ \E o, src \in Objects : comp_move_assign(o, src)
    \/ \E o \in Objects : comp_destroy(o)
    \/ \E o \in Objects : comp_serialize(o)
    \/ \E o \in Objects : comp_cereal_save(o)
    \/ \E o \in Objects : \E v \in LoadArgs : comp_load(o, v)
    \/ \E o \in Objects : comp_cereal_load(o)
    \/ comp_return

SpecComp == InitComp /\ [][NextComp]_vars

-----------------------------------------------------------------------------
(* Claims about the composite structures *)

\* the object load has just filled and the object the stream was written from
Loaded == <<call.o>>
Original == <<stream.from>>

\* C13: load applied to the stream written by serialize reads the members
\* in the order they were written, leaves nothing unread, and yields an
\* object with the same size and the same query results as the original
\* that compares equal to it with operator== (inv_multi_perm_support is
\* loaded with the permutation the original supports)
C13_RoundTrip ==
    (/\ call # NoCall
     /\ call.op = "comp_load"
     /\ cls = "ips" => call.c = Get(stream.heap, Original).m_perm) =>
        /\ call.ret = <<>>
        /\ Queries(heap, Loaded) = Queries(stream.heap, Original)
        /\ Equal(heap, Loaded, stream.heap, Original)

\* the structures with a serialize method that the order of writing is
\* stated for
SerializeClasses == {"csa", "vlc", "rmq", "wt_gmr_rs", "wt_gmr"}

\* the members load reads, in the order it reads them
ReadFields(c) ==
    LET reads == SelectSeq(load_steps(c), LAMBDA s : s.k \in {"read", "readsup", "sub"})
    IN  [j \in 1 .. Len(reads) |-> reads[j].f]

\* the concatenation of the own serialized forms of the members fs of the
\* object at path p
RECURSIVE MemberForms(_, _, _)
MemberForms(h, p, fs) ==
    IF fs = <<>> THEN <<>>
    ELSE LET f == Head(fs)
             c == Get(h, p).cls
             own == IF KindOf(c, f) = "object"
                    THEN MemberForms(h, p \o <<f>>, ReadFields(Get(h, p \o <<f>>).cls))
                    ELSE Form(c, f, Get(h, p \o <<f>>))
         IN  own \o MemberForms(h, p, Tail(fs))

\* C14 as stated: serialize writes the members in the order in which the
\* fields are declared, each member contributing only its own form
C14_DeclarationOrder ==
    (/\ call # NoCall
     /\ call.op = "comp_serialize"
     /\ cls \in SerializeClasses) =>
        stream.items = MemberForms(heap, <<call.o>>, Decl(cls))

\* C14: serialize writes each member it serializes once, as its own
\* serialized form and nothing else, in the order in which load reads the
\* members back; for csa_bitcompressed and rmq_succinct_sada that order is
\* the order of the field declarations
C14_SerializeOrder ==
    (/\ call # NoCall
     /\ call.op = "comp_serialize"
     /\ cls \in SerializeClasses) =>
        /\ stream.items = MemberForms(heap, <<call.o>>, ReadFields(cls))
        /\ cls \in {"csa", "rmq"} =>
              stream.items = MemberForms(heap, <<call.o>>, Decl(cls))

\* a non-empty vlc_vector has been written
C14_Witness ==
    /\ call # NoCall
    /\ call.op = "comp_serialize"
    /\ cls = "vlc"
    /\ heap[call.o].m_size # Num(0)
    /\ Len(stream.items) = 3

\* the structures with internal support members
SupportClasses == {"rmq", "wt_gmr_rs", "wt_gmr", "ips"}

\* the operations that copy, move or load an object
Rebinding == {"comp_copy_construct", "comp_move_construct", "comp_copy_assign",
              "comp_move_assign", "comp_load", "comp_cereal_load"}

\* the pointers held by the support members of the object at path p, each
\* with the sibling member it has to refer to
RECURSIVE SupportPointers(_, _)
SupportPointers(h, p) ==
    LET o == Get(h, p)
        c == o.cls
        own == {<<o[f].ptr, p \o <<Supported(c)[f]>>>> : f \in DOMAIN Supported(c)}
    IN  IF c = "wt_gmr"
        THEN own \cup {<<o.m_ips.m_perm, p \o <<"m_perm">>>>}
                 \cup SupportPointers(h, p \o <<"m_ips">>)
        ELSE own

\* every support member of the object at p refers to its sibling member
BoundToSelf(h, p) == \A pt \in SupportPointers(h, p) : pt[1] = pt[2]

\* no support member of the object at p refers to anything but its sibling
NeverForeign(h, p) == \A pt \in SupportPointers(h, p) : pt[1] \in {Null, pt[2]}

-----------------------------------------------------------------------------
(* vlc_vector: the constructors from a container and from an
   int_vector_buffer.  The elements are unsigned integers of ElemBits bits,
   the object under construction is heap.v, the input is text and call
   holds the position in the constructor. *)

MaxVlcN == 2      \* the longest input
ElemBits == 2     \* the width of the elements and of size_type

ElemMod == 2 ^ ElemBits
VlcInputs == UNION {[1 .. n -> 0 .. ElemMod - 1] : n \in 0 .. MaxVlcN}

\* bits::hi, the position of the most significant set bit
RECURSIVE hi(_)
hi(x) == IF x <= 1 THEN 0 ELSE 1 + hi(x \div 2)

\* t_coder::encoding_length of the default coder, Elias delta
encoding_length(x) == hi(x) + 2 * hi(hi(x) + 1) + 1

\* c[i] + 1 in the width of the elements
plus_one_exact(x) == x + 1
plus_one(x) == (x + 1) % ElemMod

\* clear(), on default-initialized members
cleared == [m_z |-> [bits |-> 0, words |-> <<>>], m_sample_pointer |-> <<>>,
            m_size |-> 0, m_sample_dens |-> DefaultDens]

VlcAt(pc) == call # NoCall /\ call.op = "vlc_vector" /\ call.pc = pc
VlcSame == UNCHANGED <<m_sa, m_isa, m_alphabet, m_v, stream, cls>>

\* clear(); if (c.empty()) return;
vlc_vector_begin(kind, c) ==
    /\ call = NoCall
    /\ text' = c
    /\ heap' = [v |-> cleared]
    /\ call' = [op |-> "vlc_vector", kind |-> kind, i |-> 0, c |-> 0, ret |-> 0,
                pc |-> IF Len(c) = 0 THEN "done" ELSE "pass1",
                z_size |-> 0, no_sample |-> 0, sample_cnt |-> 0]
    /\ VlcSame

\* (1) Calculate size of z: one iteration, or the end of the loop, where
\* m_sample_pointer and m_z are allocated
vlc_vector_pass1 ==
    /\ VlcAt("pass1")
    /\ IF call.i < Len(text)
       THEN LET x == plus_one(text[call.i + 1])
            IN  /\ call' = IF x < 1 THEN [call EXCEPT !.pc = "thrown"]
                           ELSE [call EXCEPT !.i = @ + 1,
                                             !.z_size = @ + encoding_length(x)]
                /\ UNCHANGED heap
       ELSE LET samples == (Len(text) + heap.v.m_sample_dens - 1) \div heap.v.m_sample_dens
            IN  /\ heap' = [heap EXCEPT !.v.m_sample_pointer = [j \in 1 .. samples + 1 |-> 0],
                                        !.v.m_z.bits = call.z_size]
                /\ call' = [call EXCEPT !.pc = "pass2", !.i = 0, !.z_size = 0]
    /\ UNCHANGED text
    /\ VlcSame

\* (2) Write z: one iteration, or the end of the loop, where m_size is set
vlc_vector_pass2 ==
    /\ VlcAt("pass2")
    /\ IF call.i < Len(text)
       THEN LET x == plus_one(text[call.i + 1])
                sample == call.no_sample = 0
            IN  /\ heap' = [heap EXCEPT
                              !.v.m_sample_pointer =
                                  IF sample THEN [@ EXCEPT ![call.sample_cnt + 1] = call.z_size]
                                  ELSE @,
                              !.v.m_z.words = Append(@, x)]
                /\ call' = [call EXCEPT
                              !.i = @ + 1,
                              !.z_size = @ + encoding_length(x),
                              !.sample_cnt = IF sample THEN @ + 1 ELSE @,
                              !.no_sample = (IF sample THEN heap.v.m_sample_dens ELSE @) - 1]
       ELSE /\ heap' = [heap EXCEPT !.v.m_size = Len(text)]
            /\ call' = [call EXCEPT !.pc = "done"]
    /\ UNCHANGED text
    /\ VlcSame

\* the constructor returns, or the exception leaves it and the members are
\* destroyed
vlc_vector_end ==
    /\ VlcAt("done") \/ VlcAt("thrown")
    /\ heap' = IF call.pc = "thrown" THEN NoHeap ELSE heap
    /\ call' = NoCall
    /\ text' = EmptyVec
    /\ VlcSame

InitVlc ==
    /\ text = EmptyVec
    /\ m_sa = EmptyVec
    /\ m_isa = EmptyVec
    /\ m_alphabet = EmptyAlphabet
    /\ m_v = EmptyBitVector
    /\ call = NoCall
    /\ heap = NoHeap
    /\ stream = NoStream
    /\ cls = "vlc_vector"

NextVlc ==
    \/ \E kind \in {"Container", "int_vector_buffer"}, c \in VlcInputs :
          vlc_vector_begin(kind, c)
    \/ vlc_vector_pass1
    \/ vlc_vector_pass2
    \/ vlc_vector_end

SpecVlc == InitVlc /\ [][NextVlc]_vars

\* some element is the largest value of its type, so that adding one wraps
Wraps(c) == \E j \in 1 .. Len(c) : c[j] = ElemMod - 1

\* C16: the constructors throw exactly when some element x makes x + 1
\* wrap below 1; the exception is thrown in the first pass, when nothing
\* but clear() has touched the members; every other input is constructed
\* with all its elements
C16_ThrowsOnWrap ==
    /\ VlcAt("thrown") =>
          /\ Wraps(text)
          /\ heap.v = cleared
    /\ VlcAt("pass2") => ~Wraps(text)
    /\ VlcAt("done") =>
          /\ ~Wraps(text)
          /\ heap.v.m_size = Len(text)
          /\ heap.v.m_z.words = [j \in 1 .. Len(text) |-> text[j] + 1]

\* the second element of the input wraps and the constructor has thrown
C16_Witness ==
    /\ VlcAt("thrown")
    /\ Len(text) = 2
    /\ text[1] = 0
    /\ text[2] = ElemMod - 1
    /\ call.i = 1

-----------------------------------------------------------------------------
(* store_to_file, store_to_checked_file, load_from_file and
   load_from_checked_file.  heap holds the file system (which of the two
   files can be opened, and what they contain), util::verbose and the
   object v that is loaded. *)

MaxIoVal == 2     \* the values that are stored

File == "file"
CheckFile == "file_check"
Files == {File, CheckFile}
Overloads == {"T", "int_vector", "char const *", "std::string"}
NoData == <<"none">>

\* add_hash(t, out) and serialize(t, out) / out.write: nothing reaches the
\* file when the stream could not be opened
Write(h, f, data) == IF h.open[f] THEN [h EXCEPT !.data[f] = data] ELSE h

\* store_to_file: the overloads for char const * and std::string return
\* false inside if (util::verbose), the others whenever !out
store_to_file(h, kind, val) ==
    IF ~h.open[File] /\ (kind \in {"char const *", "std::string"} => h.verbose)
    THEN [h |-> h, ret |-> FALSE]
    ELSE [h |-> Write(h, File, <<kind, val>>), ret |-> TRUE]

\* store_to_checked_file: the hash goes to file_check, then store_to_file
store_to_checked_file(h, kind, val) ==
    IF ~h.open[CheckFile] /\ (kind = "char const *" => h.verbose)
    THEN [h |-> h, ret |-> FALSE]
    ELSE store_to_file(Write(h, CheckFile, <<"hash", kind>>), kind, val)

\* load_from_file<T>: load(v, in) reads what the file holds as a T
load_from_file(h) ==
    IF ~h.open[File] THEN [h |-> h, ret |-> FALSE]
    ELSE [h |-> [h EXCEPT !.v = IF h.data[File][1] = "T" THEN h.data[File]
                                ELSE <<"T", "garbage">>],
          ret |-> TRUE]

\* load_from_checked_file<T>: the hash in file_check has to be that of T
load_from_checked_file(h) ==
    IF ~h.open[CheckFile] THEN [h |-> h, ret |-> FALSE]
    ELSE IF h.data[CheckFile] # <<"hash", "T">> THEN [h |-> h, ret |-> FALSE]
    ELSE load_from_file(h)

IoCall(op, kind, r) ==
    [op |-> op, kind |-> kind, i |-> 0, c |-> 0, ret |-> r.ret, before |-> heap]
IoIdle == call = NoCall /\ UNCHANGED <<text, m_sa, m_isa, m_alphabet, m_v, stream, cls>>

io_store_to_file(kind, val) ==
    /\ IoIdle
    /\ heap' = store_to_file(heap, kind, val).h
    /\ call' = IoCall("store_to_file", kind, store_to_file(heap, kind, val))

io_store_to_checked_file(kind, val) ==
    /\ IoIdle
    /\ heap' = store_to_checked_file(heap, kind, val).h
    /\ call' = IoCall("store_to_checked_file", kind, store_to_checked_file(heap, kind, val))

io_load_from_file ==
    /\ IoIdle
    /\ heap' = load_from_file(heap).h
    /\ call' = IoCall("load_from_file", "T", load_from_file(heap))

io_load_from_checked_file ==
    /\ IoIdle
    /\ heap' = load_from_checked_file(heap).h
    /\ call' = IoCall("load_from_checked_file", "T", load_from_checked_file(heap))

\* the environment: a file becomes (un)openable, util::verbose is set
io_environment ==
    /\ IoIdle
    /\ \/ \E f \in Files : heap' = [heap EXCEPT !.open[f] = ~@]
       \/ heap' = [heap EXCEPT !.verbose = ~@]
    /\ UNCHANGED call

io_return ==
    /\ call # NoCall
    /\ call' = NoCall
    /\ UNCHANGED <<text, m_sa, m_isa, m_alphabet, m_v, heap, stream, cls>>

InitIo ==
    /\ text = EmptyVec
    /\ m_sa = EmptyVec
    /\ m_isa = EmptyVec
    /\ m_alphabet = EmptyAlphabet
    /\ m_v = EmptyBitVector
    /\ call = NoCall
    /\ heap = [open |-> [f \in Files |-> TRUE], data |-> [f \in Files |-> NoData],
               verbose |-> FALSE, v |-> <<"T", 0>>]
    /\ stream = NoStream
    /\ cls = "io"

NextIo ==
    \/ \E kind \in Overloads, val \in 1 .. MaxIoVal : io_store_to_file(kind, val)
    \/ \E kind \in Overloads \ {"std::string"}, val \in 1 .. MaxIoVal :
          io_store_to_checked_file(kind, val)
    \/ io_load_from_file
    \/ io_load_from_checked_file
    \/ io_environment
    \/ io_return

SpecIo == InitIo /\ [][NextIo]_vars

\* the files a function has to open
Opens(op) ==
    CASE op = "store_to_file" -> {File}
      [] op = "load_from_file" -> {File}
      [] OTHER -> {CheckFile, File}

\* C17: every store function returns false when a file it writes cannot
\* be opened, whatever util::verbose is, and every load function returns
\* false when a file it reads cannot be opened and leaves the target as it
\* was
C17_OpenFailureReported ==
    (/\ call # NoCall
     /\ call.op \in {"store_to_file", "store_to_checked_file", "load_from_file",
                     "load_from_checked_file"}
     /\ \E f \in Opens(call.op) : ~call.before.open[f]) =>
        /\ call.ret = FALSE
        /\ call.op \in {"load_from_file", "load_from_checked_file"} =>
              heap.v = call.before.v

-----------------------------------------------------------------------------
(* isa_of_csa_psi and isa_of_csa_wt: ISA from the sampled ISA values of a
   CSA and its psi or lf.  The CSA is the state of the CSA specification;
   its isa_sample member holds ISA at the text positions 0, d, 2d, ... *)

MaxDens == 3      \* the largest sampling density

\* isa_sample.sample_leq(i): the rightmost sample at or before i, as
\* <<ISA value, text position>>
sample_leq(csa, d, i) ==
    LET ci == i \div d
    IN  <<csa.m_isa[ci * d], ci * d>>

\* isa_sample.sample_qeq(i): the sample that follows i, the first sample
\* when there is none
sample_qeq(csa, d, i) ==
    LET samples == (size(csa) + d - 1) \div d
        ci == ((i \div d) + 1) % samples
    IN  <<csa.m_isa[ci * d], ci * d>>

\* while (i--) result = f[result]
RECURSIVE walk(_, _, _, _)
walk(csa, f, result, i) ==
    IF i = 0 THEN result
    ELSE walk(csa, f, IF f = "psi" THEN psi_access(csa, result) ELSE lf_access(csa, result),
              Sub(i, 1))

\* isa_of_csa_psi::operator[]
isa_of_csa_psi(csa, d, i) ==
    LET sample == sample_leq(csa, d, i)
        steps == Sub(i, sample[2])
    IN  [ret |-> walk(csa, "psi", sample[1], steps), pos |-> sample[2], steps |-> steps]

\* isa_of_csa_wt::operator[]
isa_of_csa_wt_forward(csa, d, i) ==
    LET sample == sample_qeq(csa, d, i)
        steps == IF sample[2] < i THEN Sub(Add(sample[2], size(csa)), i)
                 ELSE Sub(sample[2], i)
    IN  [ret |-> walk(csa, "psi", sample[1], steps), pos |-> sample[2], steps |-> steps]
isa_of_csa_wt(csa, d, i) ==
    LET sample == sample_qeq(csa, d, i)
        steps == IF sample[2] < i THEN Sub(Add(sample[2], size(csa)), i)
                 ELSE Sub(sample[2], i)
    IN  [ret |-> walk(csa, "lf", sample[1], steps), pos |-> sample[2], steps |-> steps]

isa_psi_call(d, i) ==
    /\ call = NoCall
    /\ i < size(Csa)
    /\ call' = [op |-> "isa_of_csa_psi", i |-> i, c |-> d, ret |-> isa_of_csa_psi(Csa, d, i)]
    /\ UNCHANGED <<text, m_sa, m_isa, m_alphabet, m_v, rest>>

isa_wt_call(d, i) ==
    /\ call = NoCall
    /\ i < size(Csa)
    /\ call' = [op |-> "isa_of_csa_wt", i |-> i, c |-> d, ret |-> isa_of_csa_wt(Csa, d, i)]
    /\ UNCHANGED <<text, m_sa, m_isa, m_alphabet, m_v, rest>>

NextIsa ==
    \/ \E d \in 1 .. MaxDens, i \in 0 .. size(Csa) - 1 : isa_psi_call(d, i)
    \/ \E d \in 1 .. MaxDens, i \in 0 .. size(Csa) - 1 : isa_wt_call(d, i)
    \/ return_call

SpecIsa == InitCsa /\ [][NextIsa]_vars

\* C18: for every sampling density and every i < n, isa_of_csa_psi[i]
\* starts from the rightmost sample at a position pos <= i and applies psi
\* i - pos times, isa_of_csa_wt[i] starts from a sample at pos >= i and
\* applies lf pos - i times, or from a sample at pos < i and applies lf
\* pos + n - i times; both return ISA[i]
C18_IsaFromSamples ==
    /\ call.op = "isa_of_csa_psi" =>
          /\ call.ret.pos <= call.i
          /\ call.ret.steps = call.i - call.ret.pos
          /\ call.ret.ret = InverseSuffixArray(text)[call.i]
    /\ call.op = "isa_of_csa_wt" =>
          /\ call.ret.steps = IF call.ret.pos >= call.i THEN call.ret.pos - call.i
                               ELSE call.ret.pos + size(Csa) - call.i
          /\ call.ret.steps <= size(Csa)
          /\ call.ret.ret = InverseSuffixArray(text)[call.i]

\* isa_of_csa_wt wraps around: the sample returned lies before i
C18_Witness ==
    /\ call.op = "isa_of_csa_wt"
    /\ call.c = 2
    /\ call.ret.pos < call.i
    /\ call.ret.steps > 1
    /\ call.ret.ret = m_isa[call.i]

-----------------------------------------------------------------------------
(* rmq_succinct_sada: the balanced parentheses sequence of the extended
   Cartesian tree of a container v (text), kept in heap.m_ect_bp, and the
   range minimum / maximum query on it *)

MaxRmqN == 4      \* the longest container
MaxRmqVal == 2    \* the largest element

RmqInputs == UNION {[0 .. n - 1 -> 0 .. MaxRmqVal] : n \in 0 .. MaxRmqN}

\* rmq_construct_helper_type(l, r): the leftmost position of the minimum
\* (maximum) of v[l..r]
rmq_helper(v, t_min, l, r) ==
    CHOOSE m \in l .. r :
        /\ \A j \in l .. r : IF t_min THEN v[m] <= v[j] ELSE v[m] >= v[j]
        /\ \A j \in l .. m - 1 : v[j] # v[m]

\* construct_bp_of_extended_cartesian_tree: the three visits of the node
\* of [l..r] write 1, then 1 0 for the leaf, then 0, around the sequences
\* of [l..m-1] and [m+1..r]
RECURSIVE ect_bp(_, _, _, _)
ect_bp(v, t_min, l, r) ==
    IF l > r THEN <<>>
    ELSE LET m == rmq_helper(v, t_min, l, r)
         IN  <<1>> \o ect_bp(v, t_min, l, m - 1) \o <<1, 0>>
                  \o ect_bp(v, t_min, m + 1, r) \o <<0>>

construct_bp_of_extended_cartesian_tree(v, t_min) ==
    LET s == ect_bp(v, t_min, 0, VecLen(v) - 1)
    IN  [p \in 0 .. Len(s) - 1 |-> s[p + 1]]

\* rank and select for the pattern 10: an occurrence is counted at its 0
rank10(bp, i) == Cardinality({p \in 1 .. i - 1 : bp[p - 1] = 1 /\ bp[p] = 0})
select10(bp, k) ==
    CHOOSE p \in DOMAIN bp : p >= 1 /\ bp[p - 1] = 1 /\ bp[p] = 0 /\ rank10(bp, p) = k - 1

\* bp_support::rmq(x, y): the leftmost position of the minimal excess in
\* [x..y]
excess(bp, p) == Cardinality({q \in 0 .. p : bp[q] = 1}) - Cardinality({q \in 0 .. p : bp[q] = 0})
bp_rmq(bp, x, y) ==
    CHOOSE z \in x .. y :
        /\ \A q \in x .. y : excess(bp, z) <= excess(bp, q)
        /\ \A q \in x .. z - 1 : excess(bp, q) # excess(bp, z)

\* operator()(l, r)
rmq_operator_same_leaf(bp, l, r) ==
    IF l = r THEN l
    ELSE LET x == select10(bp, l + 1)
             y == select10(bp, l + 1)
             z == bp_rmq(bp, x, y)
             f == Sub(Add(z, 1), 2 * bp[z])
         IN  rank10(bp, Sub(f, 1))
rmq_operator(bp, l, r) ==
    IF l = r THEN l
    ELSE LET x == select10(bp, l + 1)
             y == select10(bp, r + 1)
             z == bp_rmq(bp, x, y)
             f == Sub(Add(z, 1), 2 * bp[z])
         IN  rank10(bp, Sub(f, 1))

\* size()
rmq_size(bp) == VecLen(bp) \div 4

RmqIdle == call = NoCall /\ UNCHANGED <<m_sa, m_isa, m_alphabet, m_v, stream, cls>>

\* rmq_succinct_sada<t_min>(&v): the constructor runs once, on an object
\* that does not exist yet
rmq_construct(t_min, v) ==
    /\ call = NoCall
    /\ text' = v
    /\ heap' = [t_min |-> t_min, m_ect_bp |-> construct_bp_of_extended_cartesian_tree(v, t_min)]
    /\ cls' = "rmq_succinct_sada"
    /\ UNCHANGED <<m_sa, m_isa, m_alphabet, m_v, stream, call>>

rmq_call(l, r) ==
    /\ RmqIdle
    /\ l <= r
    /\ r < rmq_size(heap.m_ect_bp)
    /\ call' = [op |-> "rmq", i |-> l, c |-> r, ret |-> rmq_operator(heap.m_ect_bp, l, r)]
    /\ UNCHANGED <<text, heap>>

rmq_size_call ==
    /\ RmqIdle
    /\ call' = [op |-> "rmq_size", i |-> 0, c |-> 0, ret |-> rmq_size(heap.m_ect_bp)]
    /\ UNCHANGED <<text, heap>>

rmq_return ==
    /\ call # NoCall
    /\ call' = NoCall
    /\ UNCHANGED <<text, m_sa, m_isa, m_alphabet, m_v, heap, stream, cls>>

InitRmq ==
    /\ text = EmptyVec
    /\ m_sa = EmptyVec
    /\ m_isa = EmptyVec
    /\ m_alphabet = EmptyAlphabet
    /\ m_v = EmptyBitVector
    /\ call = NoCall
    /\ heap = [t_min |-> TRUE, m_ect_bp |-> EmptyVec]
    /\ stream = NoStream
    /\ cls = "none"

NextRmq ==
    \/ cls = "none" /\ \E t_min \in BOOLEAN, v \in RmqInputs : rmq_construct(t_min, v)
    \/ \E l, r \in 0 .. MaxRmqN - 1 : rmq_call(l, r)
    \/ rmq_size_call
    \/ rmq_return

SpecRmq == InitRmq /\ [][NextRmq]_vars

\* v[i] is at least as good as v[j] for the kind of query
Better(i, j) == IF heap.t_min THEN text[i] <= text[j] ELSE text[i] >= text[j]

\* C19: for all l <= r < n the query returns the smallest index in [l..r]
\* at which v is minimal (maximal for t_min = false), l itself for l = r,
\* and size() returns n
C19_RangeMinimum ==
    /\ call.op = "rmq" =>
          /\ call.ret \in call.i .. call.c
          /\ \A j \in call.i .. call.c : Better(call.ret, j)
          /\ \A j \in call.i .. call.ret - 1 : text[j] # text[call.ret]
    /\ call.op = "rmq_size" => call.ret = VecLen(text)
    /\ VecLen(heap.m_ect_bp) = 4 * VecLen(text)

\* a query over four elements whose minimum occurs twice inside the range
\* and the first occurrence is returned
C19_Witness ==
    /\ call.op = "rmq"
    /\ heap.t_min
    /\ call.i = 0
    /\ call.c = 3
    /\ call.ret = 1
    /\ text[1] = text[2]

-----------------------------------------------------------------------------
(* inv_multi_perm_support: the inverse of a vector that is a permutation
   inside each chunk, answered with back pointers every t_s steps of a
   cycle.  The object is kept in heap, the supported vector in heap.m_perm *)

MaxChunk == 5     \* the largest chunksize
MaxIpsN == 7      \* the longest vector
MaxTs == 2        \* the largest t_s

\* std::max
std_max(a, b) == IF a < b THEN b ELSE a
chunk_offset(chunksize, i) == (i \div chunksize) * chunksize

\* the permutations of 0 .. k - 1
LocalPerms(k) ==
    {p \in [0 .. k - 1 -> 0 .. k - 1] : \A a, b \in 0 .. k - 1 : p[a] = p[b] => a = b}

\* the vectors of length n that are a permutation of the chunk-local
\* indices inside each chunk, the last chunk possibly shorter
ChunkPerms(chunksize, n) ==
    LET full == n \div chunksize
    IN  {[i \in 0 .. n - 1 |-> IF i \div chunksize < full
                                THEN f[i \div chunksize][i % chunksize]
                                ELSE g[i % chunksize]] :
            f \in [0 .. full - 1 -> LocalPerms(chunksize)],
            g \in LocalPerms(n % chunksize)}

IpsInputs ==
    UNION {{<<chunksize, iv>> : iv \in ChunkPerms(chunksize, n)} :
               chunksize \in 1 .. MaxChunk, n \in 0 .. MaxIpsN}

\* the while loop of the constructor on the cycle of i: every t_s steps
\* the reached position is marked and points back to the last pointer;
\* after the loop i is marked if the cycle took more than t_s steps.  The
\* two passes of the constructor make the same walk: the first keeps
\* marked and max_back_pointer, the second writes the pointers
RECURSIVE ips_while(_, _, _, _, _, _, _, _)
ips_while(iv, t_s, i, off, j, steps, back_pointer, st) ==
    LET j_new == iv[j] + off
    IN  IF j_new = i
        THEN IF st.all_steps > t_s
             THEN [st EXCEPT !.marked = (i :> 1) @@ @,
                             !.pointer = (i :> back_pointer - off) @@ @,
                             !.max_back_pointer = std_max(@, back_pointer - off)]
             ELSE st
        ELSE LET s1 == [st EXCEPT !.done = @ \cup {j_new - off},
                                  !.all_steps = @ + 1]
             IN  IF t_s = steps + 1
                 THEN ips_while(iv, t_s, i, off, j_new, 0, j_new,
                                [s1 EXCEPT !.marked = (j_new :> 1) @@ @,
                                           !.pointer = (j_new :> back_pointer - off) @@ @,
                                           !.max_back_pointer = std_max(@, back_pointer - off)])
                 ELSE ips_while(iv, t_s, i, off, j_new, steps + 1, back_pointer, s1)

\* the for loop over the positions: done is cleared at each chunk border
RECURSIVE ips_for(_, _, _, _, _, _)
ips_for(iv, chunksize, t_s, i, off, st) ==
    IF i = VecLen(iv) THEN st
    ELSE LET border == i = off + chunksize
             off1 == IF border THEN i ELSE off
             done1 == IF border THEN {} ELSE st.done
         IN  IF (i - off1) \notin done1
             THEN ips_for(iv, chunksize, t_s, i + 1, off1,
                          ips_while(iv, t_s, i, off1, i, 0, i,
                                    [st EXCEPT !.done = done1 \cup {i - off1},
                                               !.all_steps = 0]))
             ELSE ips_for(iv, chunksize, t_s, i + 1, off1, [st EXCEPT !.done = done1])

\* rank_1 of the marking: the marked positions before j
m_marked_rank(marked, j) == Cardinality({k \in 0 .. j - 1 : marked[k] = 1})

\* inv_multi_perm_support(perm, iv, chunksize) with perm = &iv
inv_multi_perm_support(iv, chunksize, t_s) ==
    LET st == ips_for(iv, chunksize, t_s, 0, 0,
                      [done |-> {}, all_steps |-> 0, max_back_pointer |-> 0,
                       marked |-> [k \in DOMAIN iv |-> 0], pointer |-> <<>>])
        n_bp == m_marked_rank(st.marked, VecLen(iv))
        width == hi(st.max_back_pointer) + 1
        at(k) == CHOOSE j \in DOMAIN st.pointer : m_marked_rank(st.marked, j) = k
    IN  [m_perm |-> iv, m_chunksize |-> chunksize, t_s |-> t_s,
         m_marked |-> st.marked,
         m_back_pointer |-> [k \in 0 .. n_bp - 1 |-> st.pointer[at(k)] % (2 ^ width)]]

\* the jump of operator[] at a marked position
back_local(ips, off, j) ==
    ips.m_back_pointer[m_marked_rank(ips.m_marked, j)]
back(ips, off, j) ==
    ips.m_back_pointer[m_marked_rank(ips.m_marked, j)] + off

\* the inner while loop of operator[]
RECURSIVE ips_inner(_, _, _, _, _)
ips_inner(ips, i, off, j, fuel) ==
    IF ips.m_perm[j] + off = i THEN j
    ELSE IF fuel = 0 THEN Diverged
    ELSE ips_inner(ips, i, off, ips.m_perm[j] + off, fuel - 1)

\* the outer while loop of operator[]
RECURSIVE ips_outer(_, _, _, _, _)
ips_outer(ips, i, off, j, fuel) ==
    LET j_new == ips.m_perm[j] + off
    IN  IF j_new = i THEN j
        ELSE IF fuel = 0 THEN Diverged
        ELSE IF ips.m_marked[j] = 1
        THEN LET k == ips_inner(ips, i, off, back(ips, off, j), fuel)
             IN  IF k = Diverged THEN Diverged ELSE ips_outer(ips, i, off, k, fuel - 1)
        ELSE ips_outer(ips, i, off, j_new, fuel - 1)

\* operator[](i); Diverged when the loops do not end
ips_operator(ips, i) ==
    ips_outer(ips, i, chunk_offset(ips.m_chunksize, i), i, 2 * VecLen(ips.m_perm) + 2)

IpsIdle == call = NoCall /\ UNCHANGED <<text, m_sa, m_isa, m_alphabet, m_v, stream, cls>>

\* a default constructed object
IpsUnbuilt ==
    [m_perm |-> EmptyVec, m_chunksize |-> 0, t_s |-> 0,
     m_marked |-> EmptyVec, m_back_pointer |-> EmptyVec]

\* the constructor runs once, on an object that does not exist yet
ips_construct(chunksize, iv, t_s) ==
    /\ call = NoCall
    /\ heap' = inv_multi_perm_support(iv, chunksize, t_s)
    /\ cls' = "inv_multi_perm_support"
    /\ UNCHANGED <<text, m_sa, m_isa, m_alphabet, m_v, stream, call>>

ips_call(i) ==
    /\ IpsIdle
    /\ i < VecLen(heap.m_perm)
    /\ call' = [op |-> "ips_access", i |-> i, c |-> 0, ret |-> ips_operator(heap, i)]
    /\ UNCHANGED heap

\* the inner while loop of operator[], counting the forward moves
RECURSIVE ips_inner_count(_, _, _, _, _, _)
ips_inner_count(ips, i, off, j, fuel, moves) ==
    IF ips.m_perm[j] + off = i THEN [j |-> j, moves |-> moves]
    ELSE IF fuel = 0 THEN [j |-> Diverged, moves |-> moves]
    ELSE ips_inner_count(ips, i, off, ips.m_perm[j] + off, fuel - 1, moves + 1)

\* the outer while loop of operator[], counting the forward moves
\* (j = j_new) and the jumps along a back pointer
RECURSIVE ips_outer_count(_, _, _, _, _, _, _)
ips_outer_count(ips, i, off, j, fuel, moves, jumps) ==
    LET j_new == ips.m_perm[j] + off
    IN  IF j_new = i THEN [ret |-> j, moves |-> moves, jumps |-> jumps]
        ELSE IF fuel = 0 THEN [ret |-> Diverged, moves |-> moves, jumps |-> jumps]
        ELSE IF ips.m_marked[j] = 1
        THEN LET k == ips_inner_count(ips, i, off, back(ips, off, j), fuel, moves)
             IN  IF k.j = Diverged
                 THEN [ret |-> Diverged, moves |-> k.moves, jumps |-> jumps + 1]
                 ELSE ips_outer_count(ips, i, off, k.j, fuel - 1, k.moves, jumps + 1)
        ELSE ips_outer_count(ips, i, off, j_new, fuel - 1, moves + 1, jumps)

\* operator[](i) with the counts of its moves and jumps
ips_count_unmarked(ips, i) ==
    ips_outer_count([ips EXCEPT !.m_marked = [k \in DOMAIN ips.m_perm |-> 0]], i,
                    chunk_offset(ips.m_chunksize, i), i, 2 * VecLen(ips.m_perm) + 2, 0, 0)
ips_count(ips, i) ==
    ips_outer_count(ips, i, chunk_offset(ips.m_chunksize, i), i,
                    2 * VecLen(ips.m_perm) + 2, 0, 0)

ips_count_call(i) ==
    /\ IpsIdle
    /\ i < VecLen(heap.m_perm)
    /\ LET r == ips_count(heap, i)
       IN  call' = [op |-> "ips_count", i |-> i, c |-> r.moves, ret |-> r.ret, jumps |-> r.jumps]
    /\ UNCHANGED heap
ips_return ==
    /\ call # NoCall
    /\ call' = NoCall
    /\ UNCHANGED <<text, m_sa, m_isa, m_alphabet, m_v, heap, stream, cls>>

InitIps ==
    /\ text = EmptyVec
    /\ m_sa = EmptyVec
    /\ m_isa = EmptyVec
    /\ m_alphabet = EmptyAlphabet
    /\ m_v = EmptyBitVector
    /\ call = NoCall
    /\ heap = IpsUnbuilt
    /\ stream = NoStream
    /\ cls = "none"

NextIps ==
    \/ cls = "none" /\ \E in \in IpsInputs, t_s \in 1 .. MaxTs : ips_construct(in[1], in[2], t_s)
    \/ \E i \in 0 .. MaxIpsN - 1 : ips_call(i)
    \/ \E i \in 0 .. MaxIpsN - 1 : ips_count_call(i)
    \/ ips_return

SpecIps == InitIps /\ [][NextIps]_vars

\* the number of positions on the cycle of i
RECURSIVE CycleLen(_, _, _, _)
CycleLen(ips, i, j, len) ==
    LET j_new == ips.m_perm[j] + chunk_offset(ips.m_chunksize, i)
    IN  IF j_new = i \/ len > VecLen(ips.m_perm) THEN len
        ELSE CycleLen(ips, i, j_new, len + 1)

\* C20: operator[](i) ends for every i < n and returns the position j in
\* the chunk of i with perm[j] + chunk_offset(i) = i, whatever the length
\* of the cycle of i
C20_Inverse ==
    call.op = "ips_access" =>
        /\ call.ret # Diverged
        /\ call.ret \in DOMAIN heap.m_perm
        /\ chunk_offset(heap.m_chunksize, call.ret) = chunk_offset(heap.m_chunksize, call.i)
        /\ heap.m_perm[call.ret] + chunk_offset(heap.m_chunksize, call.i) = call.i

\* a query at a marked position of a cycle longer than t_s + 1 in a last
\* chunk that is shorter than chunksize
C20_Witness ==
    /\ call.op = "ips_access"
    /\ chunk_offset(heap.m_chunksize, call.i) > 0
    /\ VecLen(heap.m_perm) < 2 * heap.m_chunksize
    /\ CycleLen(heap, call.i, call.i, 1) > heap.t_s + 1
    /\ heap.m_marked[call.i] = 1
    /\ call.ret # Diverged

\* C21: operator[](i) makes at most t_s forward moves along the cycle of i,
\* before and after at most one jump along a back pointer
C21_AtMostTsSteps ==
    call.op = "ips_count" =>
        /\ call.ret # Diverged
        /\ call.c <= heap.t_s
        /\ call.jumps <= 1

\* a query on a cycle longer than t_s + 1 that walks to a marked position,
\* jumps once and walks on to the inverse
C21_Witness ==
    /\ call.op = "ips_count"
    /\ CycleLen(heap, call.i, call.i, 1) > heap.t_s + 1
    /\ call.jumps = 1
    /\ call.c = heap.t_s - 1
    /\ heap.t_s = 2

-----------------------------------------------------------------------------
(* wt_gmr: the input (text) is split into chunks of m_chunksize positions;
   m_bv_blocks holds, symbol by symbol and chunk by chunk, the number of
   occurrences in unary, m_bv_chunks the same chunk by chunk and symbol by
   symbol, and m_perm the chunk-local positions of each chunk sorted by
   symbol.  The object is kept in heap *)

MaxWtN == 5        \* the longest short input
MaxWtSym == 2      \* the largest symbol of a short input
LongN == 64        \* the length of the long input
LongSym == LongN \div 2   \* the symbol at the end of the long input
LinearLimit == 50  \* ranges shorter than this are searched linearly
DefaultTs == 32    \* t_s of the default t_inverse_support

\* the short inputs, and one input whose chunk holds a range of at least
\* LinearLimit entries
WtInputs ==
    UNION {[0 .. n - 1 -> 0 .. MaxWtSym] : n \in 0 .. MaxWtN}
        \cup {[p \in 0 .. LongN - 1 |-> IF p = LongN - 1 THEN LongSym ELSE 0]}

\* the unary codes of the counts counts[0 .. len - 1] after a leading 0:
\* the bit at p is 0 when p is 0 or the end of the code of some count
unary_all(counts, len) ==
    LET upto(t) == Cardinality(UNION {{<<u, k>> : k \in 1 .. counts[u]} : u \in 0 .. t})
        ends == {1 + t + upto(t) : t \in 0 .. len - 1}
        total == IF len = 0 THEN 0 ELSE upto(len - 1)
    IN  [p \in 0 .. total + len |-> IF p = 0 \/ p \in ends THEN 0 ELSE 1]

\* the positions of chunk i
ChunkOf(n, chunksize, i) ==
    {j \in 0 .. n - 1 : i * chunksize <= j /\ j < (i + 1) * chunksize}

\* the constructor
wt_gmr(input) ==
    LET m_size == VecLen(input)
        largest == IF m_size = 0 THEN 0
                   ELSE CHOOSE v \in {input[p] : p \in DOMAIN input} :
                            \A p \in DOMAIN input : input[p] <= v
        m_max_symbol == largest + 1
        bits_hi == hi(m_max_symbol - 1)
        m_chunksize == 2 ^ (bits_hi + 1)
        m_chunks == (m_size + m_chunksize - 1) \div m_chunksize
        \* tmp[c * m_chunks + offset]: the occurrences of c in chunk offset
        tmp == [t \in 0 .. m_max_symbol * m_chunks - 1 |->
                   Cardinality({j \in ChunkOf(m_size, m_chunksize, t % m_chunks) :
                                    input[j] = t \div m_chunks}) % (2 ^ (bits_hi + 2))]
        b == unary_all(tmp, m_max_symbol * m_chunks)
        \* symbols[j] of chunk i: t = i * m_max_symbol + j
        symbols == [t \in 0 .. m_chunks * m_max_symbol - 1 |->
                       Cardinality({j \in ChunkOf(m_size, m_chunksize, t \div m_max_symbol) :
                                        input[j] = t % m_max_symbol}) % (2 ^ (bits_hi + 2))]
        x == unary_all(symbols, m_chunks * m_max_symbol)
        \* the slot of position j after the prefix sums of its chunk
        slot(j) ==
            LET i == j \div m_chunksize
                chunk == ChunkOf(m_size, m_chunksize, i)
            IN  i * m_chunksize
                    + Cardinality({q \in chunk : input[q] < input[j]})
                    + Cardinality({q \in chunk : input[q] = input[j] /\ q < j})
        perm == [s \in 0 .. m_size - 1 |->
                    LET j == CHOOSE j \in 0 .. m_size - 1 : slot(j) = s
                    IN  (j - (j \div m_chunksize) * m_chunksize) % (2 ^ (bits_hi + 1))]
    IN  [m_size |-> m_size, m_max_symbol |-> m_max_symbol,
         m_chunksize |-> m_chunksize, m_chunks |-> m_chunks,
         m_bv_blocks |-> b, m_bv_chunks |-> x,
         m_perm |-> perm,
         m_ips |-> inv_multi_perm_support(perm, m_chunksize, DefaultTs)]

\* select_1_type / select_0_type of a bit vector: the position of the
\* k-th bit equal to bit
bv_select(bv, bit, k) ==
    CHOOSE p \in DOMAIN bv :
        bv[p] = bit /\ Cardinality({q \in 0 .. p - 1 : bv[q] = bit}) = k - 1

\* std::find_if(begin, end, x > val): the first position of [first, last)
\* whose entry is greater than val, last when there is none
find_if_greater(a, first, last, val) ==
    LET hits == {k \in first .. last - 1 : a[k] > val}
    IN  IF hits = {} THEN last ELSE CHOOSE k \in hits : \A h \in hits : k <= h

\* std::lower_bound(begin, end, value)
RECURSIVE lower_bound(_, _, _, _)
lower_bound(a, first, count, value) ==
    IF count = 0 THEN first
    ELSE LET step == count \div 2
         IN  IF a[first + step] < value
             THEN lower_bound(a, first + step + 1, count - (step + 1), value)
             ELSE lower_bound(a, first, step, value)

\* the range of m_perm of symbol c in a chunk
wt_begin(wt, chunk, c) ==
    bv_select(wt.m_bv_chunks, 0, chunk * wt.m_max_symbol + 1 + c)
        - (chunk * wt.m_max_symbol + 1 + c) + 1
wt_end(wt, chunk, c) ==
    bv_select(wt.m_bv_chunks, 0, chunk * wt.m_max_symbol + 2 + c)
        - (chunk * wt.m_max_symbol + 2 + c) + 1

\* rank(i, c) with the search of the range chosen by linear
wt_gmr_rank_by(wt, i, c, linear) ==
    IF i = 0 \/ c > wt.m_max_symbol - 1 THEN 0
    ELSE LET chunk == (i - 1) \div wt.m_chunksize
             ones_before_c ==
                 bv_select(wt.m_bv_blocks, 0, c * wt.m_chunks + 1) - (c * wt.m_chunks + 1) + 1
             c_ones_before_chunk ==
                 bv_select(wt.m_bv_blocks, 0, c * wt.m_chunks + chunk + 1)
                     - (c * wt.m_chunks + chunk + 1) + 1 - ones_before_c
             begin == wt_begin(wt, chunk, c)
             end == wt_end(wt, chunk, c)
             val == (i - 1) % wt.m_chunksize
             c_ones_in_chunk ==
                 IF linear
                 THEN find_if_greater(wt.m_perm, begin, end, val) - begin
                 ELSE lower_bound(wt.m_perm, begin, end - begin, val + 1) - begin
         IN  c_ones_before_chunk + c_ones_in_chunk

\* whether rank(i, c) searches its range linearly
wt_linear(wt, i, c) ==
    \/ i = 0
    \/ c > wt.m_max_symbol - 1
    \/ LET chunk == (i - 1) \div wt.m_chunksize
       IN  wt_end(wt, chunk, c) - wt_begin(wt, chunk, c) < LinearLimit

\* rank(i, c)
wt_gmr_rank_whole_chunk(wt, i, c) ==
    wt_gmr_rank_by(wt, IF i = 0 THEN 0 ELSE ((i - 1) \div wt.m_chunksize + 1) * wt.m_chunksize,
                   c, wt_linear(wt, i, c))
wt_gmr_rank(wt, i, c) == wt_gmr_rank_by(wt, i, c, wt_linear(wt, i, c))

\* inverse_select(i)
wt_gmr_inverse_select(wt, i) ==
    LET chunk == i \div wt.m_chunksize
        x == ips_operator(wt.m_ips, i)
        tmp == bv_select(wt.m_bv_chunks, 1, x + 1)
        c == tmp - x - (chunk * wt.m_max_symbol) - 1
        ones_before_c ==
            bv_select(wt.m_bv_blocks, 0, c * wt.m_chunks + 1) - (c * wt.m_chunks + 1) + 1
        c_before_chunk ==
            bv_select(wt.m_bv_blocks, 0, c * wt.m_chunks + chunk + 1)
                - (c * wt.m_chunks + chunk + 1) + 1 - ones_before_c
        c_in_chunk == tmp - bv_select(wt.m_bv_chunks, 0, c + 1 + chunk * wt.m_max_symbol) - 1
    IN  <<c_before_chunk + c_in_chunk, c>>

\* select(i, c)
wt_gmr_select_first_chunk(wt, i, c) ==
    LET ones_before_c ==
            bv_select(wt.m_bv_blocks, 0, c * wt.m_chunks + 1) - (c * wt.m_chunks)
        chunk == bv_select(wt.m_bv_blocks, 1, ones_before_c + i)
                     - ones_before_c - (c * wt.m_chunks + 1) - i + 1
        c_ones_before_chunk ==
            bv_select(wt.m_bv_blocks, 0, c * wt.m_chunks + chunk + 1)
                - (c * wt.m_chunks + chunk) - ones_before_c
        pi_pos == bv_select(wt.m_bv_chunks, 0, chunk * wt.m_max_symbol + c + 1)
                      + (i - c_ones_before_chunk) - chunk * wt.m_max_symbol - c - 1
    IN  wt.m_perm[pi_pos]
wt_gmr_select(wt, i, c) ==
    LET ones_before_c ==
            bv_select(wt.m_bv_blocks, 0, c * wt.m_chunks + 1) - (c * wt.m_chunks)
        chunk == bv_select(wt.m_bv_blocks, 1, ones_before_c + i)
                     - ones_before_c - (c * wt.m_chunks + 1) - i + 1
        c_ones_before_chunk ==
            bv_select(wt.m_bv_blocks, 0, c * wt.m_chunks + chunk + 1)
                - (c * wt.m_chunks + chunk) - ones_before_c
        pi_pos == bv_select(wt.m_bv_chunks, 0, chunk * wt.m_max_symbol + c + 1)
                      + (i - c_ones_before_chunk) - chunk * wt.m_max_symbol - c - 1
    IN  wt.m_perm[pi_pos] + chunk * wt.m_chunksize

WtIdle == call = NoCall /\ UNCHANGED <<text, m_sa, m_isa, m_alphabet, m_v, stream, cls, heap>>

\* the constructor runs once, on an object that does not exist yet
wt_construct(input) ==
    /\ call = NoCall
    /\ text' = input
    /\ heap' = wt_gmr(input)
    /\ cls' = "wt_gmr"
    /\ UNCHANGED <<m_sa, m_isa, m_alphabet, m_v, stream, call>>

\* rank(i, c), with what the other search of the range would return
wt_rank_call(i, c) ==
    /\ WtIdle
    /\ cls = "wt_gmr"
    /\ i <= heap.m_size
    /\ call' = [op |-> "wt_rank", i |-> i, c |-> c, ret |-> wt_gmr_rank(heap, i, c),
                linear |-> wt_linear(heap, i, c),
                other |-> wt_gmr_rank_by(heap, i, c, ~wt_linear(heap, i, c))]

\* p = select(i, c), followed by rank(p + 1, c) and inverse_select(p)
wt_select_call(i, c) ==
    /\ WtIdle
    /\ cls = "wt_gmr"
    /\ 1 <= i
    /\ i <= wt_gmr_rank(heap, heap.m_size, c)
    /\ LET p == wt_gmr_select(heap, i, c)
       IN  call' = [op |-> "wt_select", i |-> i, c |-> c, ret |-> p,
                    rank |-> IF p \in 0 .. heap.m_size - 1
                             THEN wt_gmr_rank(heap, p + 1, c) ELSE Diverged,
                    inverse_select |-> IF p \in 0 .. heap.m_size - 1
                                       THEN wt_gmr_inverse_select(heap, p) ELSE <<>>]

wt_return ==
    /\ call # NoCall
    /\ call' = NoCall
    /\ UNCHANGED <<text, m_sa, m_isa, m_alphabet, m_v, heap, stream, cls>>

InitWt ==
    /\ text = EmptyVec
    /\ m_sa = EmptyVec
    /\ m_isa = EmptyVec
    /\ m_alphabet = EmptyAlphabet
    /\ m_v = EmptyBitVector
    /\ call = NoCall
    /\ heap = <<>>
    /\ stream = NoStream
    /\ cls = "none"

NextWt ==
    \/ cls = "none" /\ \E input \in WtInputs : wt_construct(input)
    \/ cls = "wt_gmr" /\ \E i \in 0 .. heap.m_size, c \in 0 .. heap.m_max_symbol : wt_rank_call(i, c)
    \/ cls = "wt_gmr" /\ \E i \in 1 .. heap.m_size, c \in 0 .. heap.m_max_symbol : wt_select_call(i, c)
    \/ wt_return

SpecWt == InitWt /\ [][NextWt]_vars

\* the occurrences of c before position i of the input
OccBefore(i, c) == Cardinality({p \in 0 .. i - 1 : text[p] = c})

\* C22: rank(i, c) is the number of positions p < i with input[p] = c, 0
\* for i = 0 and for c above the largest symbol, and the linear and the
\* binary search of the range give the same result
C22_RankCounts ==
    call.op = "wt_rank" =>
        /\ call.ret = OccBefore(call.i, call.c)
        /\ call.other = call.ret
        /\ call.i = 0 => call.ret = 0
        /\ call.c >= heap.m_max_symbol => call.ret = 0

\* a rank over a range of at least LinearLimit entries, searched by
\* binary search, that ends inside the range
C22_Witness ==
    /\ call.op = "wt_rank"
    /\ ~call.linear
    /\ call.ret > 0
    /\ call.ret < OccBefore(heap.m_size, call.c)

\* C23: select(k, c) is the position p of the k-th occurrence of c, and
\* rank(p + 1, c) = k and inverse_select(p) = (k - 1, c)
C23_SelectFindsOccurrence ==
    call.op = "wt_select" =>
        /\ call.ret \in DOMAIN text
        /\ text[call.ret] = call.c
        /\ OccBefore(call.ret, call.c) = call.i - 1
        /\ call.rank = call.i
        /\ call.inverse_select = <<call.i - 1, call.c>>

\* the second occurrence of a symbol, found in the last chunk, which is
\* not the first and is partially filled
C23_Witness ==
    /\ call.op = "wt_select"
    /\ call.i = 2
    /\ call.ret \div heap.m_chunksize = heap.m_chunks - 1
    /\ heap.m_chunks > 1
    /\ heap.m_size < heap.m_chunks * heap.m_chunksize
    /\ call.rank = 2

-----------------------------------------------------------------------------
(* extract(cst, v, text) of suffix_tree_algorithm.hpp.  A node v of the
   suffix tree of text is the interval [lb, rb] of the suffix array whose
   suffixes share the prefix of length depth(v) *)

\* the length of the longest common prefix of the suffixes p and q
RECURSIVE lcp(_, _, _)
lcp(t, p, q) ==
    IF p >= VecLen(t) \/ q >= VecLen(t) \/ t[p] # t[q] THEN 0
    ELSE 1 + lcp(t, p + 1, q + 1)

\* cst.root(), cst.lb(v), cst.depth(v)
cst_root == <<0, VecLen(text) - 1>>
cst_lb(v) == v[1]
cst_depth(v) ==
    IF v[1] = v[2] THEN VecLen(text) - m_sa[v[1]]
    ELSE lcp(text, m_sa[v[1]], m_sa[v[2]])

\* the nodes: the root, the leaves and the intervals that cannot be
\* extended without losing the common prefix
CstNodes ==
    {v \in (DOMAIN m_sa) \X (DOMAIN m_sa) :
        /\ v[1] <= v[2]
        /\ \/ v = cst_root
           \/ v[1] = v[2]
           \/ /\ cst_depth(v) > 0
              /\ v[1] = 0 \/ lcp(text, m_sa[v[1] - 1], m_sa[v[1]]) < cst_depth(v)
              /\ v[2] = VecLen(text) - 1 \/ lcp(text, m_sa[v[2]], m_sa[v[2] + 1]) < cst_depth(v)}

\* extract(csa, begin, end, text): writes T[begin..end] to text and returns
\* the length of the extracted text
csa_extract(begin, end) ==
    [text |-> [k \in 0 .. end - begin |-> text[begin + k]], ret |-> end - begin + 1]

\* the values a call may leave where the caller reads the result when the
\* function ends without a return statement
UndefinedReturn == 0 .. MaxN

\* extract(cst, v, text): the root returns 0; for every other node the
\* function calls the extract of the CSA and flows off its end
cst_extract(v, left) ==
    /\ call = NoCall
    /\ IF v = cst_root
       THEN /\ left = 0
            /\ call' = [op |-> "cst_extract", i |-> v[1], c |-> v[2], ret |-> 0,
                        text |-> (0 :> 0)]
       ELSE LET begin == sa_access(Csa, cst_lb(v))
                e == csa_extract(begin, begin + cst_depth(v) - 1)
            IN  call' = [op |-> "cst_extract", i |-> v[1], c |-> v[2], ret |-> left,
                         text |-> e.text]
    /\ UNCHANGED <<text, m_sa, m_isa, m_alphabet, m_v, rest>>

NextCst ==
    \/ \E v \in CstNodes, left \in UndefinedReturn : cst_extract(v, left)
    \/ return_call

SpecCst == InitCsa /\ [][NextCst]_vars

\* C24: extract(cst, v, text) returns 0 for the root after writing
\* text[0] = 0, and for every other node the number of characters written,
\* depth(v), the value the extract of the CSA returned
C24_ExtractReturnsLength ==
    call.op = "cst_extract" =>
        LET v == <<call.i, call.c>>
        IN  IF v = cst_root
            THEN call.ret = 0 /\ call.text[0] = 0
            ELSE /\ VecLen(call.text) = cst_depth(v)
                 /\ \A k \in DOMAIN call.text : call.text[k] = text[m_sa[call.i] + k]
                 /\ call.ret = cst_depth(v)

-----------------------------------------------------------------------------
(* empty() of the views of a CSA: traverse_csa_psi and traverse_csa_saisa *)

MaxStack == 3     \* the frames the call stack holds in the model

\* csa_bitcompressed::empty
csa_empty(csa) == VecLen(csa.m_sa) = 0

\* a bool returned as size_type
to_size_type(b) == IF b THEN 1 ELSE 0

\* traverse_csa_psi::empty: return m_csa.empty()
traverse_csa_psi_empty(csa) == to_size_type(csa_empty(csa))

\* traverse_csa_saisa::empty: return m_csa, empty() evaluates m_csa,
\* discards it and calls empty() of the view again; the call never returns
\* and ends when the stack is used up
RECURSIVE traverse_csa_saisa_empty(_, _)
traverse_csa_saisa_empty(csa, frames) ==
    IF frames = 0 THEN Diverged ELSE traverse_csa_saisa_empty(csa, frames - 1)

psi_empty_call ==
    /\ call = NoCall
    /\ call' = [op |-> "psi_empty", i |-> 0, c |-> 0, ret |-> traverse_csa_psi_empty(Csa)]
    /\ UNCHANGED <<text, m_sa, m_isa, m_alphabet, m_v, rest>>

saisa_empty_call ==
    /\ call = NoCall
    /\ call' = [op |-> "saisa_empty", i |-> 0, c |-> 0,
                ret |-> traverse_csa_saisa_empty(Csa, MaxStack)]
    /\ UNCHANGED <<text, m_sa, m_isa, m_alphabet, m_v, rest>>

\* a CSA of a text, or a default constructed one
InitEmpty ==
    \/ InitCsa
    \/ /\ text = EmptyVec
       /\ m_sa = EmptyVec
       /\ m_isa = EmptyVec
       /\ m_alphabet = EmptyAlphabet
       /\ m_v = EmptyBitVector
       /\ call = NoCall
       /\ RestIdle

NextEmpty ==
    \/ psi_empty_call
    \/ saisa_empty_call
    \/ return_call

SpecEmpty == InitEmpty /\ [][NextEmpty]_vars

\* C25: empty() of the psi and lf views of a bit-compressed CSA ends and
\* returns whether the CSA is empty: the value of the CSA's empty(), of
\* traverse_csa_psi::empty and of size() = 0
C25_EmptyOfViews ==
    /\ call.op = "psi_empty" => (call.ret # 0) = csa_empty(Csa)
    /\ call.op = "saisa_empty" =>
          /\ call.ret # Diverged
          /\ (call.ret # 0) = csa_empty(Csa)
          /\ call.ret = traverse_csa_psi_empty(Csa)
          /\ (call.ret # 0) = (size(Csa) = 0)

-----------------------------------------------------------------------------
(* vlc_vector: the elements of a container c (text) are stored plus one as
   self-delimiting codes in the bit stream m_z, with a pointer into the
   stream every t_dens elements; operator[] decodes from the pointer *)

MaxAccN == 4      \* the longest container
MaxAccVal == 2    \* the largest element
MaxAccDens == 3   \* the largest t_dens

\* containers without the largest value of the element type
AccInputs == UNION {[1 .. n -> 0 .. MaxAccVal] \cap [1 .. n -> 0 .. ElemMod - 2] : n \in 0 .. MaxAccN}

\* the w bits of v, most significant first
bits_of(v, w) == [k \in 1 .. w |-> (v \div (2 ^ (w - k))) % 2]

\* t_coder::encode of Elias delta: for x with most significant bit N,
\* hi(N + 1) zeros, N + 1 in hi(N + 1) + 1 bits, the N low bits of x
elias_delta_encode(x) ==
    LET N == hi(x)
        L == hi(N + 1)
    IN  bits_of(0, L) \o bits_of(N + 1, L + 1) \o bits_of(x % (2 ^ N), N)

\* the value of the bits z[from + 1 .. from + w], most significant first
RECURSIVE read_bits(_, _, _)
read_bits(z, from, w) ==
    IF w = 0 THEN 0 ELSE 2 * read_bits(z, from, w - 1) + z[from + w]

\* the zeros of z from position from on
RECURSIVE leading_zeros(_, _)
leading_zeros(z, from) ==
    IF from >= Len(z) \/ z[from + 1] = 1 THEN 0 ELSE 1 + leading_zeros(z, from + 1)

\* t_coder::decode<false, false>(data, start_idx, n): the n-th number
\* decoded from bit start_idx on
RECURSIVE elias_delta_decode(_, _, _)
elias_delta_decode(z, start_idx, n) ==
    LET L == leading_zeros(z, start_idx)
        N == read_bits(z, start_idx + L, L + 1) - 1
        x == 2 ^ N + read_bits(z, start_idx + 2 * L + 1, N)
    IN  IF n <= 1 THEN x ELSE elias_delta_decode(z, start_idx + 2 * L + 1 + N, n - 1)

\* get_sample_dens()
get_sample_dens(v) == IF v.t_dens = 0 THEN v.m_sample_dens ELSE v.t_dens

\* (1) Calculate size of z
RECURSIVE vlc_z_size(_, _)
vlc_z_size(c, i) ==
    IF i = Len(c) THEN 0 ELSE encoding_length(plus_one(c[i + 1])) + vlc_z_size(c, i + 1)

\* (2) Write z: the loop from element i on
RECURSIVE vlc_write(_, _, _, _, _, _)
vlc_write(c, v, i, sample_cnt, no_sample, z_size) ==
    IF i = Len(c) THEN v
    ELSE LET sample == no_sample = 0
             width == hi(vlc_z_size(c, 0) + 1) + 1
             v1 == IF sample
                   THEN [v EXCEPT !.m_sample_pointer = (sample_cnt :> z_size % (2 ^ width)) @@ @]
                   ELSE v
             x == plus_one(c[i + 1])
         IN  vlc_write(c, [v1 EXCEPT !.m_z = @ \o elias_delta_encode(x)], i + 1,
                       IF sample THEN sample_cnt + 1 ELSE sample_cnt,
                       (IF sample THEN get_sample_dens(v) ELSE no_sample) - 1,
                       z_size + encoding_length(x))

\* vlc_vector(Container const & c) for c without 2^w - 1
vlc_vector(c, t_dens) ==
    LET v == [t_dens |-> t_dens, m_sample_dens |-> t_dens, m_size |-> 0,
              m_z |-> <<>>, m_sample_pointer |-> <<>>]
        samples == (Len(c) + get_sample_dens(v) - 1) \div get_sample_dens(v)
    IN  IF Len(c) = 0 THEN v
        ELSE [vlc_write(c, [v EXCEPT !.m_sample_pointer = [k \in 0 .. samples |-> 0]],
                        0, 0, 0, 0)
                 EXCEPT !.m_size = Len(c)]

\* operator[](i)
vlc_access_plus_one(v, i) ==
    LET idx == i \div get_sample_dens(v)
    IN  elias_delta_decode(v.m_z, v.m_sample_pointer[idx], i - v.t_dens * idx + 1)
vlc_access(v, i) ==
    LET idx == i \div get_sample_dens(v)
    IN  elias_delta_decode(v.m_z, v.m_sample_pointer[idx], i - v.t_dens * idx + 1) - 1

AccIdle == call = NoCall /\ UNCHANGED <<text, m_sa, m_isa, m_alphabet, m_v, stream, cls>>

\* the constructor runs once, on an object that does not exist yet
vlc_construct(c, t_dens) ==
    /\ call = NoCall
    /\ text' = c
    /\ heap' = vlc_vector(c, t_dens)
    /\ cls' = "vlc_vector"
    /\ UNCHANGED <<m_sa, m_isa, m_alphabet, m_v, stream, call>>

vlc_access_call(i) ==
    /\ AccIdle
    /\ cls = "vlc_vector"
    /\ i < heap.m_size
    /\ call' = [op |-> "vlc_access", i |-> i, c |-> 0, ret |-> vlc_access(heap, i)]
    /\ UNCHANGED heap

vlc_size_call ==
    /\ AccIdle
    /\ cls = "vlc_vector"
    /\ call' = [op |-> "vlc_size", i |-> 0, c |-> 0, ret |-> heap.m_size]
    /\ UNCHANGED heap

\* set_sample_dens(sdens)
vlc_set_sample_dens(sdens) ==
    /\ AccIdle
    /\ cls = "vlc_vector"
    /\ heap' = [heap EXCEPT !.m_sample_dens = sdens]
    /\ UNCHANGED call

InitAcc ==
    /\ text = EmptyVec
    /\ m_sa = EmptyVec
    /\ m_isa = EmptyVec
    /\ m_alphabet = EmptyAlphabet
    /\ m_v = EmptyBitVector
    /\ call = NoCall
    /\ heap = NoHeap
    /\ stream = NoStream
    /\ cls = "none"

NextAcc ==
    \/ cls = "none" /\ \E c \in AccInputs, t_dens \in 2 .. MaxAccDens : vlc_construct(c, t_dens)
    \/ cls = "vlc_vector" /\ \E i \in 0 .. MaxAccN - 1 : vlc_access_call(i)
    \/ vlc_size_call
    \/ \E sdens \in 1 .. MaxAccDens : vlc_set_sample_dens(sdens)
    \/ return_call

SpecAcc == InitAcc /\ [][NextAcc]_vars

\* the bit offset of element i in the encoded stream
RECURSIVE OffsetOf(_)
OffsetOf(i) == IF i = 0 THEN 0 ELSE OffsetOf(i - 1) + encoding_length(text[i] + 1)

-----------------------------------------------------------------------------
(* The words select_support_scan::select reads *)

\* the while loop: the last word read, and whether the assertion held at
\* every iteration
RECURSIVE select_loop_reads(_, _, _, _, _, _, _, _)
select_loop_reads(pat, data, words, i, word_pos, sum_args, args, carry) ==
    IF sum_args + args < i
    THEN IF ~(word_pos + 1 < words)
         THEN [asserted |-> FALSE, last |-> word_pos, unguarded |-> TRUE]
         ELSE LET r == sel_args_in_the_word(pat, data[word_pos + 1], carry)
              IN  select_loop_reads(pat, data, words, i, word_pos + 1, sum_args + args,
                                    r.res, r.carry)
    ELSE [asserted |-> TRUE, last |-> word_pos, unguarded |-> TRUE]

\* select(i): the index of the last word read, whether the read of the
\* second word before the loop was reached, and whether the assertion held
select_reads_eager(pat, data, words, i) ==
    LET carry == sel_init_carry(pat, data, 0)
        args == sel_args_in_the_first_word(pat, data[0], 0, carry)
    IN  LET r == sel_args_in_the_word(pat, data[1], sel_get_carry(pat, data[0]))
        IN  select_loop_reads(pat, data, words, i, 1, args, r.res, r.carry)
select_reads(pat, data, words, i) ==
    LET carry == sel_init_carry(pat, data, 0)
        args == sel_args_in_the_first_word(pat, data[0], 0, carry)
    IN  IF args >= i
        THEN [asserted |-> TRUE, last |-> 0, unguarded |-> FALSE]
        ELSE LET r == sel_args_in_the_word(pat, data[1], sel_get_carry(pat, data[0]))
             IN  select_loop_reads(pat, data, words, i, 1, args, r.res, r.carry)

\* select(i), with the words it read
scan_select_reads_call(pat, i, oob) ==
    /\ call = NoCall
    /\ 1 <= i
    /\ call' = [op |-> "scan_select_reads", i |-> i, c |-> 0, pat |-> pat,
                ret |-> select(pat, Data(m_v, oob), NumWords(m_v), i),
                reads |-> select_reads(pat, Data(m_v, oob), NumWords(m_v), i)]
    /\ UNCHANGED <<text, m_sa, m_isa, m_alphabet, m_v, rest>>

NextScan ==
    \/ \E pat \in SelectPatterns, oob \in OobWords :
          \E i \in SelectIdx(pat, m_v) : scan_select_reads_call(pat, i, oob)
    \/ return_call

SpecScan == InitBits /\ [][NextScan]_vars

\* C27: select(i) with 1 <= i <= the number of occurrences reads no word
\* past the last word of the vector: the read of the second word before
\* the loop is reached only when the vector has two words or more, and the
\* assertion in the loop holds at every iteration
C27_ScanStaysInside ==
    (/\ call.op = "scan_select_reads"
     /\ call.i <= BruteRank(call.pat, m_v, m_v.n)) =>
        /\ call.reads.asserted
        /\ call.reads.last < NumWords(m_v)
        /\ call.reads.unguarded => NumWords(m_v) >= 2
        /\ call.ret.kind = "ret"

\* an occurrence found in the third word, after the read before the loop
\* and one iteration of the loop
C27_Witness ==
    /\ call.op = "scan_select_reads"
    /\ call.i <= BruteRank(call.pat, m_v, m_v.n)
    /\ call.reads.unguarded
    /\ call.reads.last = 2
    /\ NumWords(m_v) = 3

====
